---- MODULE Spec2Model ----
(***************************************************************************)
(* Verification model of the hedge-betting backend (hedge-backend/):       *)
(*   - HedgeCalculator.calculate_hedge            (hedge_calculator.py)    *)
(*   - HedgeTypeAnalyzer profit cut-off           (hedge_type_analyzer.py) *)
(*   - HedgeStrategyManager pipeline / execution  (hedge_strategy_manager) *)
(*   - SmarketsAPI / BetfairAPI / OddsAPIClient   (venue clients)          *)
(*                                                                         *)
(* Money and odds are fixed-point: odds and amounts are integers counting  *)
(* hundredths (190 is 1.90, 526 is 5.26), commissions are whole percents.  *)
(* Python's float arithmetic is modelled by exact rational arithmetic      *)
(* (pairs <<numerator, denominator>>), and round(x, 2) by rounding the     *)
(* exact value half-to-even to a whole number of hundredths.               *)
(***************************************************************************)
EXTENDS Integers, Sequences, FiniteSets, TLC

VARIABLES
    calcArgs,      \* arguments of the calculate_hedge call under study
    calcPc,        \* "start" | "calc" | "scan"
    calcResult,    \* outcome of calculate_hedge
    scanResult,    \* outcome of one analyze_cross_exchange direction
    now,               \* datetime.now(), in whole seconds
    execution_status,  \* HedgeStrategyManager.execution_status: execution id -> record
    callIds,           \* history: the execution id generated by each call, in call order
    exec,              \* the execute_hedge_bet call in progress (pc = "idle": none)
    smarkets,      \* SmarketsAPI: credentials, session_token, last_login_time
    betfair,       \* BetfairAPI: session_token
    req,           \* the SmarketsAPI._make_request call in progress, with its recursion
    llm,           \* the SmarketsAPI.list_live_markets call in progress
    listed,        \* what the last list_live_markets call of a venue client returned
    pipe,          \* the find_optimal_hedge_opportunities call in progress
    odds_cache,    \* HedgeStrategyManager.odds_cache: venue -> market id -> snapshot
    fetch,         \* the fetch_odds_for_matched_markets call in progress
    call           \* a call of a pure function under study: arguments and result

calcVars == <<calcArgs, calcPc, calcResult, scanResult>>

execVars == <<now, execution_status, callIds, exec>>

venueVars == <<smarkets, betfair, req, llm, listed>>

pipeVars == <<pipe>>

fetchVars == <<odds_cache, fetch>>

callVars == <<call>>

vars == <<calcVars, execVars, venueVars, pipeVars, fetchVars, callVars>>

\* what the actions of one component leave alone
notCalc == <<execVars, venueVars, pipeVars, fetchVars, callVars>>

notExec == <<calcVars, venueVars, pipeVars, fetchVars, callVars>>

notVenue == <<calcVars, execVars, pipeVars, fetchVars, callVars>>

notVenueNorPipe == <<calcVars, execVars, fetchVars, callVars>>

notPipe == <<venueVars, notVenueNorPipe>>

notFetch == <<calcVars, execVars, venueVars, pipeVars, callVars>>

notCall == <<calcVars, execVars, venueVars, pipeVars, fetchVars>>

----------------------------------------------------------------------------
(* Bounds of the model *)

\* odds run over k * 0.10 for k in -1 .. MaxOddsIdx (and "absent")
MaxOddsIdx == 25
\* stakes run over k * 25 for k in 0 .. MaxStakeIdx
MaxStakeIdx == 6
\* besides the three default rates, commissions run over k * 10% for k in 1 .. MaxCommissionIdx
MaxCommissionIdx == 2
\* the clock runs over seconds 0 .. MaxClock
MaxClock == 1
\* execute_hedge_bet is called at most MaxCalls times
MaxCalls == 2

(* Program constants: HedgeCalculator default commission rates, in percent *)
BETFAIR_COMMISSION == 5
SMARKETS_COMMISSION == 2
ODDS_API_MARGIN == 0

----------------------------------------------------------------------------
(* Exact rational arithmetic standing for Python float arithmetic *)

Abs(x) == IF x < 0 THEN -x ELSE x

RECURSIVE GCD(_, _)
GCD(a, b) == IF b = 0 THEN a ELSE GCD(b, a % b)

\* the rational n/d (d > 0) in lowest terms
Norm(n, d) == LET g == GCD(Abs(n), d) IN <<n \div g, d \div g>>

Rat(n) == <<n, 1>>

\* hundredths (or percents) as a rational: 190 -> 19/10
Hundredths(n) == Norm(n, 100)

LCM(a, b) == (a \div GCD(a, b)) * b

RAdd(p, q) ==
    LET l == LCM(p[2], q[2])
    IN  Norm(p[1] * (l \div p[2]) + q[1] * (l \div q[2]), l)

RNeg(p) == <<-p[1], p[2]>>

RSub(p, q) == RAdd(p, RNeg(q))

RMul(p, q) ==
    LET g1 == GCD(Abs(p[1]), q[2])
        g2 == GCD(Abs(q[1]), p[2])
    IN  Norm((p[1] \div g1) * (q[1] \div g2), (p[2] \div g2) * (q[2] \div g1))

\* p / q for q # 0
RDiv(p, q) ==
    IF q[1] > 0 THEN RMul(p, <<q[2], q[1]>>)
                ELSE RMul(p, <<-q[2], -q[1]>>)

RLess(p, q) ==
    LET l == LCM(p[2], q[2])
    IN  p[1] * (l \div p[2]) < q[1] * (l \div q[2])

\* Python min(a, b): b when b < a, else a
RMin(p, q) == IF RLess(q, p) THEN q ELSE p

\* Python round(x, 2), as a whole number of hundredths (half to even)
Round2(p) ==
    LET x == RMul(p, Rat(100))
        f == x[1] \div x[2]
        r == x[1] - f * x[2]
    IN  IF 2 * r < x[2] THEN f
        ELSE IF 2 * r > x[2] THEN f + 1
        ELSE IF f % 2 = 0 THEN f ELSE f + 1

----------------------------------------------------------------------------
(* HedgeCalculator.calculate_hedge *)

\* an odds argument: absent (None) or a number of hundredths
NoOdds == [present |-> FALSE, v |-> 0]
SomeOdds(x) == [present |-> TRUE, v |-> x]

\* Python truthiness of an odds value: None and 0 are falsy
Falsy(o) == ~o.present \/ o.v = 0

None == [kind |-> "None"]
Raise(e) == [kind |-> "raise", exc |-> e]

InvalidOddsUnitLayAccepted(back_odds, lay_odds) ==
    \/ Falsy(back_odds)
    \/ Falsy(lay_odds)
    \/ back_odds.v <= 0
    \/ lay_odds.v <= 0

\* line 64: the guard that yields None
InvalidOdds(back_odds, lay_odds) ==
    \/ Falsy(back_odds)
    \/ Falsy(lay_odds)
    \/ back_odds.v <= 0
    \/ lay_odds.v <= 0
    \/ lay_odds.v <= 100

\* line 68
BackWinnings(st, bo, bc) == RMul(RMul(st, RSub(bo, Rat(1))), RSub(Rat(1), bc))

\* line 71
LayStake(st, bo, lo) == RDiv(RMul(st, bo), lo)

LayLiabilityOnFullOdds(lay_stake, lo) == RMul(lay_stake, lo)

\* line 74
LayLiability(lay_stake, lo) == RMul(lay_stake, RSub(lo, Rat(1)))

\* line 78
ProfitIfBackWins(back_winnings, lay_liability) == RSub(back_winnings, lay_liability)

\* line 81
ProfitIfLayWins(lay_stake, lc, st) == RSub(RMul(lay_stake, RSub(Rat(1), lc)), st)

GuaranteedProfitAverage(profit_if_back_wins, profit_if_lay_wins) ==
    RDiv(RAdd(profit_if_back_wins, profit_if_lay_wins), Rat(2))

\* line 84
GuaranteedProfit(profit_if_back_wins, profit_if_lay_wins) ==
    RMin(profit_if_back_wins, profit_if_lay_wins)

ProfitPercentageAsFraction(profit, st) == RDiv(profit, st)

\* line 85, for stake # 0
ProfitPercentage(profit, st) == RMul(RDiv(profit, st), Rat(100))

HedgeReturnProfitableOnly(ls, ll, pbw, plw, profit, pp) ==
    IF Round2(profit) > 0
    THEN [kind |-> "result",
          lay_stake |-> Round2(ls),
          lay_liability |-> Round2(ll),
          profit_if_back_wins |-> Round2(pbw),
          profit_if_lay_wins |-> Round2(plw),
          profit |-> Round2(profit),
          profit_percentage |-> Round2(pp)]
    ELSE None

\* lines 87-94: every field rounded to 2 decimals
HedgeReturn(ls, ll, pbw, plw, profit, pp) ==
    [kind |-> "result",
     lay_stake |-> Round2(ls),
     lay_liability |-> Round2(ll),
     profit_if_back_wins |-> Round2(pbw),
     profit_if_lay_wins |-> Round2(plw),
     profit |-> Round2(profit),
     profit_percentage |-> Round2(pp)]

calculate_hedge(back_odds, lay_odds, stake, back_commission, lay_commission) ==
    IF InvalidOdds(back_odds, lay_odds) THEN None
    ELSE
    LET bo == Hundredths(back_odds.v)
        lo == Hundredths(lay_odds.v)
        st == Rat(stake)
        bc == Hundredths(back_commission)
        lc == Hundredths(lay_commission)
        back_winnings == BackWinnings(st, bo, bc)
        lay_stake == LayStake(st, bo, lo)
        lay_liability == LayLiability(lay_stake, lo)
        profit_if_back_wins == ProfitIfBackWins(back_winnings, lay_liability)
        profit_if_lay_wins == ProfitIfLayWins(lay_stake, lc, st)
        profit == GuaranteedProfit(profit_if_back_wins, profit_if_lay_wins)
    IN  IF stake = 0 THEN Raise("ZeroDivisionError")
        ELSE HedgeReturn(lay_stake, lay_liability, profit_if_back_wins,
                         profit_if_lay_wins, profit,
                         ProfitPercentage(profit, st))

----------------------------------------------------------------------------
(* HedgeTypeAnalyzer.analyze_cross_exchange, one direction of one matched   *)
(* runner pair (Betfair backs, Smarkets lays): lines 148-184                *)

CrossExchangeLeg(bf_back_odds, sm_lay_odds, stake) ==
    IF ~Falsy(bf_back_odds) /\ ~Falsy(sm_lay_odds)
       /\ bf_back_odds.v > 0 /\ sm_lay_odds.v > 0
    THEN LET hedge_result == calculate_hedge(bf_back_odds, sm_lay_odds, stake,
                                 BETFAIR_COMMISSION, SMARKETS_COMMISSION)
         IN  IF hedge_result.kind = "raise" THEN hedge_result
             ELSE IF hedge_result.kind = "result" /\ hedge_result.profit > 0
             THEN [kind |-> "opportunities",
                   list |-> <<[back_odds |-> bf_back_odds.v,
                               lay_odds |-> sm_lay_odds.v,
                               stake |-> stake,
                               lay_stake |-> hedge_result.lay_stake,
                               profit |-> hedge_result.profit,
                               profit_percentage |-> hedge_result.profit_percentage,
                               back_commission |-> BETFAIR_COMMISSION,
                               lay_commission |-> SMARKETS_COMMISSION]>>]
             ELSE [kind |-> "opportunities", list |-> <<>>]
    ELSE [kind |-> "opportunities", list |-> <<>>]

----------------------------------------------------------------------------
(* Inputs *)

OddsInputs == {NoOdds} \cup {SomeOdds(10 * k) : k \in -1 .. MaxOddsIdx}
StakeInputs == {25 * k : k \in 0 .. MaxStakeIdx}
CommissionInputs ==
    {ODDS_API_MARGIN, SMARKETS_COMMISSION, BETFAIR_COMMISSION}
        \cup {10 * k : k \in 1 .. MaxCommissionIdx}

CalcInit ==
    /\ calcArgs \in [back_odds : OddsInputs, lay_odds : OddsInputs,
                     stake : StakeInputs,
                     back_commission : CommissionInputs,
                     lay_commission : CommissionInputs]
    /\ calcPc = "start"
    /\ calcResult = None
    /\ scanResult = None

\* a direct call of calculate_hedge with the drawn arguments
CalculateHedge ==
    /\ calcPc = "start"
    /\ calcResult' = calculate_hedge(calcArgs.back_odds, calcArgs.lay_odds,
                         calcArgs.stake, calcArgs.back_commission,
                         calcArgs.lay_commission)
    /\ calcPc' = "calc"
    /\ UNCHANGED <<calcArgs, scanResult, notCalc>>

\* the scan's use of calculate_hedge on the drawn prices and stake
ScanCrossExchangeLeg ==
    /\ calcPc = "start"
    /\ scanResult' = CrossExchangeLeg(calcArgs.back_odds, calcArgs.lay_odds,
                         calcArgs.stake)
    /\ calcPc' = "scan"
    /\ UNCHANGED <<calcArgs, calcResult, notCalc>>

CalcNext == CalculateHedge \/ ScanCrossExchangeLeg


----------------------------------------------------------------------------
(* HedgeStrategyManager.execute_hedge_bet                                  *)
(*                                                                         *)
(* The coroutine has no suspension point that yields to the event loop     *)
(* (place_bet is a plain call), so calls do not interleave: one call runs  *)
(* to its return before the next begins.  Its steps are separate actions   *)
(* so that every status the record passes through is a state.  The wall    *)
(* clock may advance between any two steps.                                *)

\* the opportunities the analyzers construct (hedge_type, back_platform,
\* lay_platform), and one with the dataclass's default platforms
Opportunities ==
    { [hedge_type |-> "exchange_internal", back_platform |-> "betfair", lay_platform |-> "betfair"],
      [hedge_type |-> "exchange_internal", back_platform |-> "smarkets", lay_platform |-> "smarkets"],
      [hedge_type |-> "exchange_internal", back_platform |-> "", lay_platform |-> ""],
      [hedge_type |-> "cross_exchange", back_platform |-> "betfair", lay_platform |-> "smarkets"],
      [hedge_type |-> "cross_exchange", back_platform |-> "smarkets", lay_platform |-> "betfair"],
      [hedge_type |-> "bookmaker_exchange", back_platform |-> "oddsapi", lay_platform |-> "betfair"],
      [hedge_type |-> "bookmaker_exchange", back_platform |-> "oddsapi", lay_platform |-> "smarkets"],
      [hedge_type |-> "bookmaker_bookmaker", back_platform |-> "oddsapi", lay_platform |-> "oddsapi"],
      [hedge_type |-> "multi_leg", back_platform |-> "betfair", lay_platform |-> "multiple"] }

\* what a venue client's place_bet can do: return a response, return nothing
\* (None), or raise.  BetfairAPI and SmarketsAPI as shipped define no
\* place_bet, so with them every call raises AttributeError.
PlaceBetOutcomes == {"response", "None", "raise"}

\* line 508: f"{hedge_type.value}_{now:%Y%m%d%H%M%S}"
ExecutionId(opportunity, t) == <<opportunity.hedge_type, t>>

\* lines 511-520
PendingRecord(opportunity, t) ==
    [status |-> "pending", opportunity |-> opportunity, timestamp |-> t,
     back_bet |-> "None", lay_bet |-> "None", additional_legs |-> <<>>,
     error |-> "None"]

\* Python truthiness of a recorded leg
Placed(bet) == bet # "None"

\* lines 539-545
FinalStatus(d) ==
    IF Placed(d.back_bet) /\ Placed(d.lay_bet) THEN "completed"
    ELSE IF Placed(d.back_bet) \/ Placed(d.lay_bet) \/ d.additional_legs # <<>>
         THEN "partially_completed"
    ELSE "failed"

Idle == [pc |-> "idle"]

ExecInit ==
    /\ now = 0
    /\ execution_status = << >>
    /\ callIds = << >>
    /\ exec = Idle

Tick ==
    /\ now < MaxClock
    /\ now' = now + 1
    /\ UNCHANGED <<execution_status, callIds, exec, notExec>>

SetStatus(id, st) == [execution_status EXCEPT ![id].status = st]

\* lines 507-520: generate the id, create (or replace) the entry as PENDING
BeginExecution ==
    /\ exec.pc = "idle"
    /\ Len(callIds) < MaxCalls
    /\ \E opportunity \in Opportunities :
         LET id == ExecutionId(opportunity, now)
         IN  /\ execution_status' =
                    [k \in DOMAIN execution_status \cup {id} |->
                        IF k = id THEN PendingRecord(opportunity, now)
                                  ELSE execution_status[k]]
             /\ callIds' = Append(callIds, id)
             /\ exec' = [pc |-> "pending", id |-> id, opportunity |-> opportunity]
    /\ UNCHANGED <<now, notExec>>

\* line 524
MarkInProgress ==
    /\ exec.pc = "pending"
    /\ execution_status' = SetStatus(exec.id, "in_progress")
    /\ exec' = [exec EXCEPT !.pc = "back"]
    /\ UNCHANGED <<now, callIds, notExec>>

\* whether the executor of this hedge type places its back leg through a
\* venue client (lines 568-599, 619-634)
BackLegByClient(o) ==
    \/ o.hedge_type = "exchange_internal" /\ o.back_platform \in {"betfair", "smarkets"}
    \/ o.hedge_type = "cross_exchange"

\* whether it places its lay leg through a venue client (581-612, 639-654, 678-693)
LayLegByClient(o) ==
    o.hedge_type \in {"exchange_internal", "cross_exchange", "bookmaker_exchange"}

\* lines 527-536 and the first half of the executor: the back leg
PlaceBackLeg ==
    /\ exec.pc = "back"
    /\ LET o == exec.opportunity
       IN  \/ \* _execute_multi_leg does not exist: AttributeError
              /\ o.hedge_type = "multi_leg"
              /\ exec' = [exec EXCEPT !.pc = "raised"]
              /\ UNCHANGED execution_status
           \/ \* exchange_internal on an unknown platform: neither branch runs
              /\ o.hedge_type = "exchange_internal"
              /\ ~BackLegByClient(o)
              /\ exec' = [exec EXCEPT !.pc = "check"]
              /\ UNCHANGED execution_status
           \/ \* the bookmaker leg is simulated (lines 667-675, 705-713)
              /\ o.hedge_type \in {"bookmaker_exchange", "bookmaker_bookmaker"}
              /\ execution_status' =
                     [execution_status EXCEPT ![exec.id].back_bet = "simulation"]
              /\ exec' = [exec EXCEPT !.pc = "lay"]
           \/ /\ BackLegByClient(o)
              /\ \E r \in PlaceBetOutcomes :
                   IF r = "raise"
                   THEN /\ exec' = [exec EXCEPT !.pc = "raised"]
                        /\ UNCHANGED execution_status
                   ELSE /\ execution_status' =
                               [execution_status EXCEPT ![exec.id].back_bet = r]
                        /\ exec' = [exec EXCEPT !.pc = "lay"]
    /\ UNCHANGED <<now, callIds, notExec>>

\* the second half of the executor: the lay leg
PlaceLayLeg ==
    /\ exec.pc = "lay"
    /\ LET o == exec.opportunity
       IN  \/ \* lines 715-723
              /\ ~LayLegByClient(o)
              /\ execution_status' =
                     [execution_status EXCEPT ![exec.id].lay_bet = "simulation"]
              /\ exec' = [exec EXCEPT !.pc = "check"]
           \/ /\ LayLegByClient(o)
              /\ \E r \in PlaceBetOutcomes :
                   IF r = "raise"
                   THEN /\ exec' = [exec EXCEPT !.pc = "raised"]
                        /\ UNCHANGED execution_status
                   ELSE /\ execution_status' =
                               [execution_status EXCEPT ![exec.id].lay_bet = r]
                        /\ exec' = [exec EXCEPT !.pc = "check"]
    /\ UNCHANGED <<now, callIds, notExec>>

\* the dictionary a call returns (lines 547-551, 557-561); the manager is
\* idle again
ExecutionReturned(execution_id, status) ==
    [pc |-> "idle", execution_id |-> execution_id, status |-> status]

\* lines 538-551: the final status from the recorded legs, and the return of
\* the status read back from the entry
CheckExecution ==
    /\ exec.pc = "check"
    /\ execution_status' =
           SetStatus(exec.id, FinalStatus(execution_status[exec.id]))
    /\ exec' = ExecutionReturned(exec.id, execution_status'[exec.id].status)
    /\ UNCHANGED <<now, callIds, notExec>>

\* a variant of the except branch that returns without touching the entry
FailExecutionUnrecorded ==
    /\ exec.pc = "raised"
    /\ exec' = ExecutionReturned(exec.id, "failed")
    /\ UNCHANGED <<execution_status, now, callIds, notExec>>

\* lines 553-561: the except branch returns ExecutionStatus.FAILED.value
FailExecution ==
    /\ exec.pc = "raised"
    /\ execution_status' =
           [execution_status EXCEPT ![exec.id].status = "failed",
                                    ![exec.id].error = "exception"]
    /\ exec' = ExecutionReturned(exec.id, "failed")
    /\ UNCHANGED <<now, callIds, notExec>>

ExecNext ==
    \/ Tick
    \/ BeginExecution
    \/ MarkInProgress
    \/ PlaceBackLeg
    \/ PlaceLayLeg
    \/ CheckExecution
    \/ FailExecution

----------------------------------------------------------------------------
(* SmarketsAPI: _ensure_auth, _login, _make_request (smarkets_api.py)       *)
(*                                                                         *)
(* The server and the network are the environment: how a login or a        *)
(* request is answered is drawn afresh each time it is issued.  The usage  *)
(* counters and the rate-limit sleep do not influence control flow and     *)
(* are left out.  A token is "None" (absent), "" (an empty string, which   *)
(* Python treats as false but as not None) or "token".                     *)

\* at most MaxRequests HTTP requests of one _make_request call are followed
MaxRequests == 4
\* one answer of a venue lists at most MaxListed competitions, events or markets
MaxListed == 2
\* of the leagues the Odds API client polls, the answers of MaxLeagues are followed
MaxLeagues == 2

\* how POST /sessions/ is answered (lines 94-111): 200 with a token, 200 with
\* an empty token, 200 without a token, another status, an exception
LoginOutcomes == {"token", "empty_token", "no_token", "rejected", "error"}

\* how an API request is answered (lines 138-164): 200/201, 401, another
\* status, an exception (transport error or an undecodable body)
ResponseOutcomes == {"ok", "unauthorized", "failed", "error"}

\* line 61-62: no token, no login yet, or a login older than 23 hours
NeedsLogin(client) ==
    \/ client.session_token \in {"None", ""}
    \/ client.last_login_time \in {"None", "stale"}

\* lines 66-111
_login(client, outcome) ==
    IF ~client.credentials THEN client
    ELSE CASE outcome = "token" ->
                [client EXCEPT !.session_token = "token", !.last_login_time = "fresh"]
           [] outcome = "empty_token" ->
                [client EXCEPT !.session_token = "", !.last_login_time = "fresh"]
           [] outcome = "no_token" ->
                [client EXCEPT !.session_token = "None", !.last_login_time = "fresh"]
           [] OTHER -> client

\* lines 56-63: the client after _ensure_auth
_ensure_auth(client, outcome) ==
    IF NeedsLogin(client) THEN _login(client, outcome) ELSE client

\* line 64: what _ensure_auth returns
Authenticated(client) == client.session_token # "None"

\* no _make_request call yet
NoRequest ==
    [pc |-> "idle", caller |-> "none", method |-> "GET", depth |-> 0, http |-> 0,
     result |-> "None"]

\* a call of _make_request entering line 117
NewRequest(caller, method) ==
    [pc |-> "ensure_auth", caller |-> caller, method |-> method, depth |-> 1,
     http |-> 0, result |-> "None"]

\* the call returns: "json" is the decoded body, everything else a
\* {"detail": ...} dictionary
Returned(r, result) == [r EXCEPT !.pc = "returned", !.result = result]

AtRest(frame) == frame.pc \in {"idle", "returned"}

HttpMethods == {"GET", "POST", "PUT"}

\* the 23 hours of line 62 pass
SessionAges ==
    /\ smarkets.last_login_time = "fresh"
    /\ smarkets' = [smarkets EXCEPT !.last_login_time = "stale"]
    /\ UNCHANGED <<betfair, req, llm, listed, notVenue>>

\* a method other than list_live_markets calls _make_request (lines 253, 260)
MakeRequestCall ==
    /\ AtRest(req)
    /\ llm.pc = "idle"
    /\ \E method \in HttpMethods : req' = NewRequest("direct", method)
    /\ UNCHANGED <<smarkets, betfair, llm, listed, notVenue>>

\* lines 117-119
EnsureAuth ==
    /\ req.pc = "ensure_auth"
    /\ \E outcome \in LoginOutcomes :
         LET client == _ensure_auth(smarkets, outcome)
         IN  /\ smarkets' = client
             /\ req' = IF Authenticated(client)
                       THEN [req EXCEPT !.pc = "send"]
                       ELSE Returned(req, "auth_failed")
    /\ UNCHANGED <<betfair, llm, listed, notVenue>>

\* lines 130-154 and 160-164: issue the request and look at the answer
SendRequest ==
    /\ req.pc = "send"
    /\ \/ /\ req.method \notin {"GET", "POST"}
          /\ req' = Returned(req, "unsupported")
          /\ UNCHANGED smarkets
       \/ /\ req.method \in {"GET", "POST"}
          /\ req.http < MaxRequests
          /\ \E response \in ResponseOutcomes :
               LET sent == [req EXCEPT !.http = @ + 1]
               IN  CASE response = "ok" ->
                          /\ req' = Returned(sent, "json")
                          /\ UNCHANGED smarkets
                     [] response = "unauthorized" ->
                          /\ req' = [sent EXCEPT !.pc = "refresh"]
                          /\ smarkets' = [smarkets EXCEPT !.session_token = "None"]
                     [] OTHER ->
                          /\ req' = Returned(sent, "request_failed")
                          /\ UNCHANGED smarkets
    /\ UNCHANGED <<betfair, llm, listed, notVenue>>

\* lines 155-160: after a 401, log in again and, if that worked, call
\* _make_request again with the same arguments
RefreshToken ==
    /\ req.pc = "refresh"
    /\ \E outcome \in LoginOutcomes :
         LET client == _ensure_auth(smarkets, outcome)
         IN  /\ smarkets' = client
             /\ req' = IF Authenticated(client)
                       THEN [req EXCEPT !.pc = "ensure_auth", !.depth = @ + 1]
                       ELSE Returned(req, "request_failed")
    /\ UNCHANGED <<betfair, llm, listed, notVenue>>

----------------------------------------------------------------------------
(* list_live_markets of the three venue clients                            *)
(*                                                                         *)
(* A returned list is [kind |-> "list", n |-> its length, fallback |->     *)
(* whether it is the built-in sample data].  "failure" records what went   *)
(* wrong during the call: "credentials" (none configured), "login"         *)
(* (authentication did not succeed), "request" (the listing request was    *)
(* not answered), "partial" (a later request was not answered),            *)
(* "malformed" (an answer of unexpected shape) or "none".  The clients are  *)
(* synchronous: one call of a client returns before the next begins.       *)

PyList(n) == [kind |-> "list", n |-> n, fallback |-> FALSE]

\* smarkets_api.py lines 453-499: five sample markets
_get_fallback_markets == [kind |-> "list", n |-> 5, fallback |-> TRUE]

NotListing ==
    [pc |-> "idle", comps |-> 0, events |-> 0, all_markets |-> 0, failure |-> "none"]

NothingListed == [venue |-> "none", failure |-> "none", result |-> None]

\* the shape of a JSON answer: an object with n entries under the expected
\* key, or something that is not an object
JsonAnswers ==
    {[object |-> FALSE, n |-> 0]} \cup {[object |-> TRUE, n |-> k] : k \in 0 .. MaxListed}

\* SmarketsAPI.list_live_markets, lines 400-414: the credentials check, the
\* authentication, and the request of list_football_competitions
SmarketsListLiveMarkets ==
    /\ llm.pc = "idle"
    /\ AtRest(req)
    /\ \E outcome \in LoginOutcomes :
         IF ~smarkets.credentials
         THEN /\ listed' = [venue |-> "smarkets", failure |-> "credentials",
                            result |-> _get_fallback_markets]
              /\ UNCHANGED <<smarkets, req, llm>>
         ELSE LET client == _ensure_auth(smarkets, outcome)
              IN  /\ smarkets' = client
                  /\ IF ~Authenticated(client)
                     THEN /\ listed' = [venue |-> "smarkets", failure |-> "login",
                                        result |-> _get_fallback_markets]
                          /\ UNCHANGED <<req, llm>>
                     ELSE /\ llm' = [NotListing EXCEPT !.pc = "competitions"]
                          /\ req' = NewRequest("list_live_markets", "GET")
                          /\ UNCHANGED listed
    /\ UNCHANGED <<betfair, notVenue>>

\* the call returns
SmarketsListed(failure, result) ==
    /\ listed' = [venue |-> "smarkets", failure |-> failure, result |-> result]
    /\ llm' = NotListing
    /\ req' = NoRequest

\* a request that came back with a detail leaves the failure it is the first of
Noted(failure) == IF llm.failure = "none" THEN failure ELSE llm.failure

\* after one competition (lines 427-444): the next one, or return all_markets
NextCompetition(frame) ==
    IF frame.comps > 1
    THEN /\ llm' = [frame EXCEPT !.pc = "events", !.comps = @ - 1, !.events = 0]
         /\ req' = NewRequest("list_live_markets", "GET")
         /\ UNCHANGED listed
    ELSE SmarketsListed(frame.failure, PyList(frame.all_markets))

\* lines 166-186 and 414-428: the competitions answer; the filter keeps
\* "kept" of them
CompetitionsListed ==
    /\ llm.pc = "competitions"
    /\ req.pc = "returned"
    /\ IF req.result # "json"
       THEN SmarketsListed("request", _get_fallback_markets)
       ELSE \E answer \in JsonAnswers, kept \in 0 .. MaxListed :
              CASE ~answer.object ->
                     /\ kept = 0
                     /\ SmarketsListed("malformed", _get_fallback_markets)
                [] answer.object /\ answer.n = 0 ->
                     /\ kept = 0
                     /\ SmarketsListed("none", _get_fallback_markets)
                [] OTHER ->
                     /\ kept <= answer.n
                     /\ IF kept = 0
                        THEN SmarketsListed("none", PyList(0))
                        ELSE /\ llm' = [llm EXCEPT !.pc = "events", !.comps = kept]
                             /\ req' = NewRequest("list_live_markets", "GET")
                             /\ UNCHANGED listed
    /\ UNCHANGED <<smarkets, betfair, notVenue>>

\* lines 188-213 and 428-431: the events of one competition
EventsListed ==
    /\ llm.pc = "events"
    /\ req.pc = "returned"
    /\ IF req.result # "json"
       THEN NextCompetition([llm EXCEPT !.failure = Noted("partial")])
       ELSE \E answer \in JsonAnswers :
              CASE ~answer.object ->
                     SmarketsListed("malformed", _get_fallback_markets)
                [] answer.object /\ answer.n = 0 -> NextCompetition(llm)
                [] OTHER ->
                     /\ llm' = [llm EXCEPT !.pc = "markets", !.events = answer.n]
                     /\ req' = NewRequest("list_live_markets", "GET")
                     /\ UNCHANGED listed
    /\ UNCHANGED <<smarkets, betfair, notVenue>>

\* after one event (lines 431-443): the next one, or the next competition
NextEvent(frame) ==
    IF frame.events > 1
    THEN /\ llm' = [frame EXCEPT !.events = @ - 1]
         /\ req' = NewRequest("list_live_markets", "GET")
         /\ UNCHANGED listed
    ELSE NextCompetition(frame)

\* lines 214-236 and 431-443: the markets of one event
MarketsListed ==
    /\ llm.pc = "markets"
    /\ req.pc = "returned"
    /\ IF req.result # "json"
       THEN NextEvent([llm EXCEPT !.failure = Noted("partial")])
       ELSE \E answer \in JsonAnswers :
              IF ~answer.object
              THEN SmarketsListed("malformed", _get_fallback_markets)
              ELSE NextEvent([llm EXCEPT !.all_markets = @ + answer.n])
    /\ UNCHANGED <<smarkets, betfair, notVenue>>

\* how Betfair's certificate login is answered (betfair_api.py lines 58-78):
\* loginStatus SUCCESS, another status, an exception
BetfairLoginOutcomes == {"success", "rejected", "error"}

\* BetfairAPI.list_live_markets (lines 80-129) called with the keyword
\* arguments kw: the outcome as [client, failure, result].  The method has
\* the one parameter event_type_id, so any other keyword is a TypeError
\* raised by the call itself.
BetfairListing(client, kw, login, answer) ==
    IF kw \notin {"none", "event_type_id"}
    THEN [client |-> client, failure |-> "none", result |-> Raise("TypeError")]
    ELSE IF ~client.session_token /\ login # "success"
    THEN [client |-> client, failure |-> "login", result |-> PyList(0)]
    ELSE LET logged == [client EXCEPT !.session_token = TRUE]
         IN  IF answer.kind = "error"
             THEN [client |-> logged, failure |-> "request", result |-> PyList(0)]
             ELSE [client |-> logged, failure |-> "none", result |-> PyList(answer.n)]

\* how listMarketCatalogue is answered (lines 105-129): an error (HTTP
\* status, transport, unexpected body) or n markets that pass the filter
BetfairAnswers ==
    {[kind |-> "error", n |-> 0]} \cup {[kind |-> "markets", n |-> k] : k \in 0 .. MaxListed}

KeywordArguments == {"none", "event_type_id", "competition_filter"}

BetfairListLiveMarkets ==
    /\ llm.pc = "idle" /\ AtRest(req)
    /\ \E kw \in KeywordArguments, login \in BetfairLoginOutcomes, answer \in BetfairAnswers :
         LET out == BetfairListing(betfair, kw, login, answer)
         IN  /\ betfair' = out.client
             /\ listed' = [venue |-> "betfair", failure |-> out.failure,
                           result |-> out.result]
    /\ UNCHANGED <<smarkets, req, llm, notVenue>>

\* how one league's odds request is answered (odds_api.py lines 68-88,
\* 112-117): a request error, which _make_request turns into {"error": ...},
\* n well-formed events with one bookmaker's h2h market each, or an event
\* without the keys lines 186 and 191 index
LeagueAnswers ==
    {[kind |-> "error", n |-> 0], [kind |-> "malformed", n |-> 1]}
        \cup {[kind |-> "events", n |-> k] : k \in 0 .. MaxListed}

RECURSIVE SumEvents(_)
SumEvents(answers) ==
    IF answers = << >> THEN 0
    ELSE (IF Head(answers).kind = "error" THEN 0 ELSE Head(answers).n)
             + SumEvents(Tail(answers))

\* OddsAPIClient.list_live_markets (lines 159-200) over get_upcoming_football_events
\* (lines 100-119): answers holds each polled league's answer, kept the number
\* of events the competition filter lets through
OddsApiListing(answers, kept) ==
    LET events == SumEvents(answers)
        errors == {i \in DOMAIN answers : answers[i].kind = "error"}
        failure == IF errors = DOMAIN answers THEN "request"
                   ELSE IF errors # {} THEN "partial" ELSE "none"
    IN  IF events = 0
        THEN [failure |-> failure, result |-> PyList(0)]
        ELSE IF \E i \in DOMAIN answers : answers[i].kind = "malformed"
        THEN [failure |-> failure, result |-> Raise("KeyError")]
        ELSE [failure |-> failure, result |-> PyList(IF kept < events THEN kept ELSE events)]

OddsApiListLiveMarkets ==
    /\ llm.pc = "idle" /\ AtRest(req)
    /\ \E answers \in [1 .. MaxLeagues -> LeagueAnswers], kept \in 0 .. MaxLeagues * MaxListed :
         LET out == OddsApiListing(answers, kept)
         IN  listed' = [venue |-> "oddsapi", failure |-> out.failure,
                        result |-> out.result]
    /\ UNCHANGED <<smarkets, betfair, req, llm, notVenue>>

VenueInit ==
    /\ smarkets \in {[credentials |-> c, session_token |-> "None", last_login_time |-> "None"] :
                         c \in BOOLEAN}
    /\ betfair = [session_token |-> FALSE]
    /\ req = NoRequest
    /\ llm = NotListing
    /\ listed = NothingListed

VenueNext ==
    \/ SessionAges
    \/ MakeRequestCall
    \/ EnsureAuth
    \/ SendRequest
    \/ RefreshToken
    \/ SmarketsListLiveMarkets
    \/ CompetitionsListed
    \/ EventsListed
    \/ MarketsListed
    \/ BetfairListLiveMarkets
    \/ OddsApiListLiveMarkets

----------------------------------------------------------------------------
(* HedgeStrategyManager.find_optimal_hedge_opportunities                   *)
(* (hedge_strategy_manager.py lines 455-495) with the stages it awaits.    *)
(*                                                                         *)
(* The three fetch coroutines handed to asyncio.gather contain no await,   *)
(* so each runs to its return in the order the tasks were created.         *)

\* the keys of a market dictionary built by BetfairAPI.list_live_markets
\* (betfair_api.py lines 110-117)
BetfairMarketKeys ==
    {"market_id", "market_name", "competition", "event_name", "start_time", "runners"}

\* lines 92-96, 102-106, 112-116: a fetch coroutine turns an exception of
\* the client into an empty list
FetchedOrEmpty(result) == IF result.kind = "raise" THEN PyList(0) ELSE result

\* what SmarketsAPI.list_live_markets can return (SmarketsListed above): the
\* sample data or the n markets found
SmarketsListings == {_get_fallback_markets} \cup {PyList(n) : n \in 0 .. MaxListed}

\* match_all_markets, lines 131-137: MarketMatcher.match_markets is called
\* with the Odds API list in the position of similarity_threshold and
\* returns the list matched_markets of market_matcher.py line 91.  Line 95
\* reads each Betfair market's name under the key "name", which no market
\* dictionary of BetfairMarketKeys has, so line 99 skips every one of them
\* and the list is returned as line 91 created it.
match_all_markets(markets) ==
    LET named == IF "name" \in BetfairMarketKeys THEN markets.betfair.n ELSE 0
    IN  PyList(named)

NoMarkets == [betfair |-> PyList(0), smarkets |-> PyList(0), oddsapi |-> PyList(0)]

NoPipeline ==
    [pc |-> "idle", stake |-> 0, min_profit_percentage |-> 0, markets |-> NoMarkets,
     matched_markets |-> None, result |-> None]

\* stakes and minimum profit percentages (hundredths) the query is called with
PipelineStakes == {50, 100}
PipelineMinProfits == {0, 50}

PipeInit == pipe = NoPipeline

\* line 472: the call
FindOptimalHedgeOpportunities ==
    /\ pipe.pc \in {"idle", "raised", "returned"}
    /\ \E stake \in PipelineStakes, min_profit_percentage \in PipelineMinProfits :
         pipe' = [NoPipeline EXCEPT !.pc = "fetch_betfair", !.stake = stake,
                                    !.min_profit_percentage = min_profit_percentage]
    /\ UNCHANGED notPipe

\* _fetch_betfair_markets, lines 88-96: the client is called with the
\* keyword competition_filter
FetchBetfairMarkets ==
    /\ pipe.pc = "fetch_betfair"
    /\ \E login \in BetfairLoginOutcomes, answer \in BetfairAnswers :
         LET out == BetfairListing(betfair, "competition_filter", login, answer)
         IN  /\ betfair' = out.client
             /\ pipe' = [pipe EXCEPT !.pc = "fetch_smarkets",
                                     !.markets.betfair = FetchedOrEmpty(out.result)]
    /\ UNCHANGED <<smarkets, req, llm, listed, notVenueNorPipe>>

\* _fetch_smarkets_markets, lines 98-106
FetchSmarketsMarkets ==
    /\ pipe.pc = "fetch_smarkets"
    /\ \E result \in SmarketsListings :
         pipe' = [pipe EXCEPT !.pc = "fetch_oddsapi",
                              !.markets.smarkets = FetchedOrEmpty(result)]
    /\ UNCHANGED notPipe

\* _fetch_odds_api_markets, lines 108-116
FetchOddsApiMarkets ==
    /\ pipe.pc = "fetch_oddsapi"
    /\ \E answers \in [1 .. MaxLeagues -> LeagueAnswers], kept \in 0 .. MaxLeagues * MaxListed :
         pipe' = [pipe EXCEPT !.pc = "match",
                              !.markets.oddsapi =
                                  FetchedOrEmpty(OddsApiListing(answers, kept).result)]
    /\ UNCHANGED notPipe

\* line 478
MatchAllMarkets ==
    /\ pipe.pc = "match"
    /\ pipe' = [pipe EXCEPT !.pc = "fetch_odds",
                            !.matched_markets = match_all_markets(pipe.markets)]
    /\ UNCHANGED notPipe

\* line 481 into fetch_odds_for_matched_markets, lines 150-165: the loop
\* header calls matched_markets.items(), which a list does not have; the
\* AttributeError leaves find_optimal_hedge_opportunities uncaught
FetchOddsForMatchedMarkets ==
    /\ pipe.pc = "fetch_odds"
    /\ pipe' = IF pipe.matched_markets.kind = "list"
               THEN [pipe EXCEPT !.pc = "raised", !.result = Raise("AttributeError")]
               ELSE [pipe EXCEPT !.pc = "match_runners"]
    /\ UNCHANGED notPipe

PipeNext ==
    \/ FindOptimalHedgeOpportunities
    \/ FetchBetfairMarkets
    \/ FetchSmarketsMarkets
    \/ FetchOddsApiMarkets
    \/ MatchAllMarkets
    \/ FetchOddsForMatchedMarkets

----------------------------------------------------------------------------
(* HedgeStrategyManager.fetch_odds_for_matched_markets called with a       *)
(* dictionary of matched markets (hedge_strategy_manager.py lines 139-230) *)
(*                                                                         *)
(* The fetch coroutines contain no await, so asyncio.gather runs them one  *)
(* after the other in the order the tasks were appended: the Betfair ids,  *)
(* then the Smarkets ids, then the Odds API ids; within a venue the order  *)
(* is the iteration order of a Python set, which is arbitrary.  A snapshot *)
(* remembers the cycle (call) that fetched it.  The record of the call     *)
(* also keeps, for the properties, what each task's fetch did (outcomes),  *)
(* how often each key was written (writes) and the cache as the call       *)
(* found it (previous).                                                    *)

\* fetch_odds_for_matched_markets is called at most MaxCycles times
MaxCycles == 2
\* matched_markets holds at most MaxMatched markets
MaxMatched == 2

Venues == {"betfair", "smarkets", "oddsapi"}

MarketIds == {"m1", "m2"}

\* the key of a matched market that names the venue's market id (lines 167-172)
IdKeys == [betfair |-> "betfair_market_id", smarkets |-> "smarkets_market_id",
           oddsapi |-> "oddsapi_market_id"]

\* a matched market names the market ids of two venues: a dictionary with
\* two of the three keys
MatchedMarket(venue1, id1, venue2, id2) ==
    [k \in {IdKeys[venue1], IdKeys[venue2]} |-> IF k = IdKeys[venue1] THEN id1 ELSE id2]

MatchedMarkets ==
    {MatchedMarket(p[1], id1, p[2], id2) :
        p \in {<<"betfair", "smarkets">>, <<"oddsapi", "betfair">>, <<"oddsapi", "smarkets">>},
        id1 \in MarketIds, id2 \in MarketIds}

\* the lists of matched markets a call is given (the match types flattened)
MatchedLists == UNION {[1 .. n -> MatchedMarkets] : n \in 0 .. MaxMatched}

\* lines 160-172: the set of the venue's market ids named by the matched markets
CollectedIds(matched_markets, venue) ==
    {matched_markets[i][IdKeys[venue]] :
        i \in {j \in DOMAIN matched_markets : IdKeys[venue] \in DOMAIN matched_markets[j]}}

\* what the client's get_market_odds does: return a snapshot, return a
\* dictionary with the key 'detail', or raise
FetchOutcomes == {"snapshot", "detail", "raise"}

EmptyStore == [id \in {} |-> 0]

\* lines 153-157
EmptyOddsData == [venue \in Venues |-> EmptyStore]

\* odds_store[market_id] = odds
Stored(odds_store, market_id, odds) ==
    [id \in DOMAIN odds_store \cup {market_id} |->
        IF id = market_id THEN odds ELSE odds_store[id]]

\* a variant of _fetch_odds that lets the client's exception escape
FetchOddsUnguarded(odds_store, market_id, outcome, cycle) ==
    [store |-> IF outcome = "snapshot"
               THEN Stored(odds_store, market_id, [market_id |-> market_id, cycle |-> cycle])
               ELSE odds_store,
     raised |-> outcome = "raise"]

\* _fetch_betfair_odds / _fetch_smarkets_odds / _fetch_odds_api_odds, lines
\* 196-230: the store after the task, and whether the task raised
_fetch_odds(odds_store, market_id, outcome, cycle) ==
    [store |-> IF outcome = "snapshot"
               THEN Stored(odds_store, market_id, [market_id |-> market_id, cycle |-> cycle])
               ELSE odds_store,
     raised |-> FALSE]

\* a variant of line 192 that merges the new snapshots into the old cache
MergedCache(cache, odds_data) ==
    [venue \in Venues |->
        [id \in DOMAIN cache[venue] \cup DOMAIN odds_data[venue] |->
            IF id \in DOMAIN odds_data[venue] THEN odds_data[venue][id]
            ELSE cache[venue][id]]]

\* line 192: self.odds_cache = odds_data
UpdatedCache(cache, odds_data) == odds_data

NotFetching ==
    [pc |-> "idle", cycle |-> 0,
     ids |-> [venue \in Venues |-> {}], pending |-> [venue \in Venues |-> {}],
     odds_data |-> EmptyOddsData,
     outcomes |-> EmptyOddsData, writes |-> EmptyOddsData,
     previous |-> EmptyOddsData]

\* lines 43-47
FetchInit ==
    /\ odds_cache = EmptyOddsData
    /\ fetch = NotFetching

\* lines 150-187: the call, the id sets and the task list
CollectMarketIds ==
    /\ fetch.pc \in {"idle", "done"}
    /\ fetch.cycle < MaxCycles
    /\ \E matched_markets \in MatchedLists :
         LET ids == [venue \in Venues |-> CollectedIds(matched_markets, venue)]
         IN  fetch' = [NotFetching EXCEPT !.pc = "gather", !.cycle = fetch.cycle + 1,
                                          !.ids = ids, !.pending = ids,
                                          !.previous = odds_cache]
    /\ UNCHANGED <<odds_cache, notFetch>>

\* the venue whose tasks are next in the task list
NextVenue(pending) ==
    IF pending["betfair"] # {} THEN "betfair"
    ELSE IF pending["smarkets"] # {} THEN "smarkets"
    ELSE "oddsapi"

\* line 189: asyncio.gather runs the next task
RunFetchTask ==
    /\ fetch.pc = "gather"
    /\ LET venue == NextVenue(fetch.pending)
       IN  \E market_id \in fetch.pending[venue], outcome \in FetchOutcomes :
             LET out == _fetch_odds(fetch.odds_data[venue], market_id, outcome, fetch.cycle)
                 wrote == out.store # fetch.odds_data[venue]
                 before == IF market_id \in DOMAIN fetch.writes[venue]
                           THEN fetch.writes[venue][market_id] ELSE 0
             IN  fetch' =
                   [fetch EXCEPT
                      !.pc = IF out.raised THEN "raised" ELSE "gather",
                      !.pending[venue] = @ \ {market_id},
                      !.odds_data[venue] = out.store,
                      !.outcomes[venue] = Stored(@, market_id, outcome),
                      !.writes[venue] =
                          Stored(@, market_id, before + (IF wrote THEN 1 ELSE 0))]
    /\ UNCHANGED <<odds_cache, notFetch>>

\* lines 189-194: every task has run; replace the cache and return odds_data
UpdateCache ==
    /\ fetch.pc = "gather"
    /\ \A venue \in Venues : fetch.pending[venue] = {}
    /\ odds_cache' = UpdatedCache(odds_cache, fetch.odds_data)
    /\ fetch' = [fetch EXCEPT !.pc = "done"]
    /\ UNCHANGED notFetch

FetchNext ==
    \/ CollectMarketIds
    \/ RunFetchTask
    \/ UpdateCache

----------------------------------------------------------------------------
(* Python built-ins used by several classes.  A string that is compared    *)
(* after a conversion is the sequence of its characters.                   *)

UpperLetters ==
    <<"A", "B", "C", "D", "E", "F", "G", "H", "I", "J", "K", "L", "M",
      "N", "O", "P", "Q", "R", "S", "T", "U", "V", "W", "X", "Y", "Z">>

LowerLetters ==
    <<"a", "b", "c", "d", "e", "f", "g", "h", "i", "j", "k", "l", "m",
      "n", "o", "p", "q", "r", "s", "t", "u", "v", "w", "x", "y", "z">>

Range(s) == {s[i] : i \in DOMAIN s}

\* str.lower()
ToLower(s) ==
    [i \in DOMAIN s |->
        IF s[i] \in Range(UpperLetters)
        THEN LowerLetters[CHOOSE k \in DOMAIN UpperLetters : UpperLetters[k] = s[i]]
        ELSE s[i]]

\* dict.get(key, default) of a record
Get(market, key, default) == IF key \in DOMAIN market THEN market[key] ELSE default

\* the None that get gives for a missing key
NoId == "None"

----------------------------------------------------------------------------
(* HedgeTypeAnalyzer's analyses, HedgeCalculator's scans, and the two      *)
(* functions that combine them: HedgeStrategyManager.analyze_all_hedge_    *)
(* types and HedgeCalculator.find_all_cross_platform_opportunities.        *)
(*                                                                         *)
(* Odds, profits and percentages are in hundredths, stakes in currency    *)
(* units, commissions in percent, as in calculate_hedge above.  A call is  *)
(* followed one loop iteration at a time; the list it returns exists once  *)
(* pc is "done".                                                           *)

\* the combined list holds at most MaxOpportunities opportunities
MaxOpportunities == 3
\* a market has at most MaxRunners runners (or matched runner pairs)
MaxRunners == 2

\* HedgeCalculator.__init__, lines 39-45
Calculator(betfair_commission, smarkets_commission, odds_api_margin) ==
    [betfair_commission |-> betfair_commission,
     smarkets_commission |-> smarkets_commission,
     odds_api_margin |-> odds_api_margin]

\* the default calculator and one configured with other rates
Calculators ==
    {Calculator(BETFAIR_COMMISSION, SMARKETS_COMMISSION, ODDS_API_MARGIN),
     Calculator(3, 1, ODDS_API_MARGIN)}

\* self.calculator.BETFAIR_COMMISSION and self.calculator.SMARKETS_COMMISSION
\* read the class attributes of lines 35-36: __init__ stores the configured
\* rates under other names (betfair_commission, smarkets_commission)
ClassCommission(calculator, exchange_name) ==
    IF exchange_name = "betfair" THEN BETFAIR_COMMISSION ELSE SMARKETS_COMMISSION

\* the rates the instance was configured with
ConfiguredCommission(calculator, exchange_name) ==
    IF exchange_name = "betfair" THEN calculator.betfair_commission
    ELSE calculator.smarkets_commission

NoOpportunities == [kind |-> "opportunities", list |-> <<>>]

\* the opportunity built from a result of calculate_hedge
Opportunity(back_platform, lay_platform, back_odds, lay_odds, stake, hedge_result, back_commission, lay_commission) ==
    [back_odds |-> back_odds.v,
     lay_odds |-> lay_odds.v,
     stake |-> stake,
     lay_stake |-> hedge_result.lay_stake,
     profit |-> hedge_result.profit,
     profit_percentage |-> hedge_result.profit_percentage,
     back_commission |-> back_commission,
     lay_commission |-> lay_commission,
     back_platform |-> back_platform,
     lay_platform |-> lay_platform]

\* a variant of the pass that appends whatever the profit is
HedgeLegUnfiltered(back_platform, lay_platform, back_odds, lay_odds, stake, back_commission, lay_commission) ==
    IF ~Falsy(back_odds) /\ ~Falsy(lay_odds) /\ back_odds.v > 0 /\ lay_odds.v > 0
    THEN CHOOSE leg \in
           {IF hedge_result.kind = "raise" THEN hedge_result
            ELSE IF hedge_result.kind = "result"
            THEN [kind |-> "opportunities",
                  list |-> <<Opportunity(back_platform, lay_platform, back_odds,
                                         lay_odds, stake, hedge_result,
                                         back_commission, lay_commission)>>]
            ELSE NoOpportunities :
              hedge_result \in {calculate_hedge(back_odds, lay_odds, stake,
                                                back_commission, lay_commission)}} : TRUE
    ELSE NoOpportunities

\* one pass of an analysis loop: the guard on the two prices, the call of
\* calculate_hedge, and the opportunity appended when the profit is positive
HedgeLeg(back_platform, lay_platform, back_odds, lay_odds, stake, back_commission, lay_commission) ==
    IF ~Falsy(back_odds) /\ ~Falsy(lay_odds) /\ back_odds.v > 0 /\ lay_odds.v > 0
    THEN CHOOSE leg \in
           {IF hedge_result.kind = "raise" THEN hedge_result
            ELSE IF hedge_result.kind = "result" /\ hedge_result.profit > 0
            THEN [kind |-> "opportunities",
                  list |-> <<Opportunity(back_platform, lay_platform, back_odds,
                                         lay_odds, stake, hedge_result,
                                         back_commission, lay_commission)>>]
            ELSE NoOpportunities :
              hedge_result \in {calculate_hedge(back_odds, lay_odds, stake,
                                                back_commission, lay_commission)}} : TRUE
    ELSE NoOpportunities

\* the passes of a loop in order: opportunities.append for each pass that
\* found one; an exception in a pass ends the call
Collected(legs) ==
    IF \E i \in DOMAIN legs : legs[i].kind = "raise"
    THEN legs[CHOOSE i \in DOMAIN legs :
                 /\ legs[i].kind = "raise"
                 /\ \A j \in 1 .. i - 1 : legs[j].kind # "raise"]
    ELSE LET appended[i \in 0 .. Len(legs)] ==
                 IF i = 0 THEN <<>> ELSE appended[i - 1] \o legs[i].list
         IN  [kind |-> "opportunities", list |-> appended[Len(legs)]]

\* sorted(list, key=lambda x: x[key], reverse=True): larger keys first,
\* equal keys in their original order (the sort is stable)
SortedDescending(list, key) ==
    LET before(i) == {j \in DOMAIN list :
                        \/ list[j][key] > list[i][key]
                        \/ list[j][key] = list[i][key] /\ j < i}
    IN  [p \in DOMAIN list |->
            list[CHOOSE i \in DOMAIN list : Cardinality(before(i)) = p - 1]]

\* return sorted(opportunities, key=lambda x: x.profit, reverse=True)
SortedByProfit(opportunities) ==
    IF opportunities.kind = "raise" THEN opportunities
    ELSE [kind |-> "opportunities",
          list |-> SortedDescending(opportunities.list, "profit")]

\* the identifiers an analysis copies into an opportunity
Identified(opportunities, back_market_id, lay_market_id, back_selection_id, lay_selection_id) ==
    IF opportunities.kind = "raise" THEN opportunities
    ELSE [kind |-> "opportunities",
          list |-> [k \in DOMAIN opportunities.list |->
                      [back_market_id |-> back_market_id,
                       lay_market_id |-> lay_market_id,
                       back_selection_id |-> back_selection_id,
                       lay_selection_id |-> lay_selection_id]
                      @@ opportunities.list[k]]]

\* the two literals exchange_name.lower() is compared with (lines 59, 61)
ExchangeLiterals ==
    [betfair |-> <<"b", "e", "t", "f", "a", "i", "r">>,
     smarkets |-> <<"s", "m", "a", "r", "k", "e", "t", "s">>]

\* a variant of the comparison that tells the exchange by the first letter
ExchangeByInitial(exchange_name) ==
    {platform \in DOMAIN ExchangeLiterals :
        /\ exchange_name # <<>>
        /\ Head(ToLower(exchange_name)) = Head(ExchangeLiterals[platform])}

\* lines 59-65: the exchange whose literal exchange_name.lower() equals,
\* none for an unknown exchange
ExchangeOf(exchange_name) ==
    {platform \in DOMAIN ExchangeLiterals :
        ToLower(exchange_name) = ExchangeLiterals[platform]}

\* hedge_type_analyzer.py lines 67-109: one runner of the market
ExchangeInternalLeg(platform, market_id, runner, stake, commission) ==
    LET back_odds == Get(runner, "best_back_price", NoOdds)
        lay_odds == Get(runner, "best_lay_price", NoOdds)
        selection_id == Get(runner, "selection_id", NoId)
    IN  IF Falsy(back_odds) \/ Falsy(lay_odds) \/ back_odds.v <= 0 \/ lay_odds.v <= 0
        THEN NoOpportunities
        ELSE IF back_odds.v > lay_odds.v
        THEN Identified(HedgeLeg(platform, platform, back_odds, lay_odds, stake,
                                 commission, commission),
                        market_id, market_id, selection_id, selection_id)
        ELSE NoOpportunities

\* HedgeTypeAnalyzer.analyze_exchange_internal, lines 39-111
analyze_exchange_internal(calculator, exchange_name, market_id, runners, stake) ==
    IF ExchangeOf(exchange_name) = {} THEN NoOpportunities
    ELSE
    LET platform == CHOOSE exchange \in ExchangeOf(exchange_name) : TRUE
        commission == ClassCommission(calculator, platform)
    IN  CHOOSE found \in
          {SortedByProfit(Collected(legs)) :
             legs \in {[n \in DOMAIN runners |->
                          ExchangeInternalLeg(platform, market_id, runners[n],
                                              stake, commission)]}} : TRUE

\* both loops of a Betfair-Smarkets analysis: Betfair backs and Smarkets
\* lays over every matched pair, then Smarkets backs and Betfair lays
CrossLegs(matches, stake, betfair_commission, smarkets_commission) ==
    [n \in DOMAIN matches |->
        HedgeLeg("betfair", "smarkets", matches[n].bf.best_back_price,
                 matches[n].sm.best_lay_price, stake,
                 betfair_commission, smarkets_commission)]
    \o
    [n \in DOMAIN matches |->
        HedgeLeg("smarkets", "betfair", matches[n].sm.best_back_price,
                 matches[n].bf.best_lay_price, stake,
                 smarkets_commission, betfair_commission)]

\* HedgeTypeAnalyzer.analyze_cross_exchange, lines 113-232
analyze_cross_exchange(calculator, matches, stake) ==
    CHOOSE found \in
      {SortedByProfit(Collected(legs)) :
         legs \in {CrossLegs(matches, stake, ClassCommission(calculator, "betfair"),
                             ClassCommission(calculator, "smarkets"))}} : TRUE

\* the loop of a bookmaker-exchange analysis: the bookmaker backs without
\* commission, the exchange lays
BookmakerLegs(exchange_name, matches, stake, commission) ==
    [n \in DOMAIN matches |->
        HedgeLeg("oddsapi", exchange_name, matches[n].back_odds,
                 matches[n].best_lay_price, stake, 0, commission)]

\* HedgeTypeAnalyzer.analyze_bookmaker_exchange, lines 234-319
analyze_bookmaker_exchange(calculator, exchange_name, matches, stake) ==
    CHOOSE found \in
      {SortedByProfit(Collected(legs)) :
         legs \in {BookmakerLegs(exchange_name, matches, stake,
                                 ClassCommission(calculator, exchange_name))}} : TRUE

\* HedgeCalculator.find_cross_platform_opportunities, lines 298-412
find_cross_platform_opportunities(calculator, matches, stake) ==
    CHOOSE found \in
      {SortedByProfit(Collected(legs)) :
         legs \in {CrossLegs(matches, stake, calculator.betfair_commission,
                             calculator.smarkets_commission)}} : TRUE

\* HedgeCalculator.find_odds_api_exchange_opportunities, lines 112-188
find_odds_api_exchange_opportunities(calculator, exchange_platform, matches, stake) ==
    CHOOSE found \in
      {SortedByProfit(Collected(legs)) :
         legs \in {BookmakerLegs(exchange_platform, matches, stake,
                                 ConfiguredCommission(calculator, exchange_platform))}} : TRUE

\* [op for op in opportunities if op.profit_percentage >= min_profit_percentage]
FilteredByMinProfit(list, min_profit_percentage) ==
    SelectSeq(list, LAMBDA op : op.profit_percentage >= min_profit_percentage)

\* a variant of the final sort that returns the concatenation as it is
Concatenated(list) == list

\* sorted(..., key=lambda x: x.profit_percentage, reverse=True)
SortedByProfitPercentage(list) == SortedDescending(list, "profit_percentage")

\* prices of a runner on an exchange: three with a positive hedge, one with
\* back below lay, one with no lay price
RunnerPrices ==
    {[best_back_price |-> SomeOdds(300), best_lay_price |-> SomeOdds(200)],
     [best_back_price |-> SomeOdds(250), best_lay_price |-> SomeOdds(200)],
     [best_back_price |-> SomeOdds(200), best_lay_price |-> SomeOdds(300)],
     [best_back_price |-> SomeOdds(300), best_lay_price |-> NoOdds]}

\* a runner of Betfair matched with a runner of Smarkets
RunnerMatches == [bf : RunnerPrices, sm : RunnerPrices]

\* a bookmaker's runner (back_odds) matched with an exchange runner
BookmakerMatches ==
    {[back_odds |-> r.best_back_price, best_lay_price |-> r.best_lay_price] :
        r \in RunnerPrices}

\* the runners, or matched runners, of one market
ListsOf(runners) == UNION {[1 .. n -> runners] : n \in 1 .. MaxRunners}

\* stakes in currency units; zero makes calculate_hedge divide by zero
AnalysisStakes == {0, 100}

\* thresholds in hundredths of a percent: 0.5 (the default) and 20.0
MinProfitPercentages == {50, 2000}

AnalysisFunctions == {"analyze_all_hedge_types", "find_all_cross_platform_opportunities"}

Exchanges == {"betfair", "smarkets"}

\* the market id of the markets analysed
DefaultMarketId == "m1"

\* what each analysis returns on the markets above, for a calculator and a stake
AnalysisOutcomes ==
    [calculator \in Calculators, stake \in AnalysisStakes |->
        [analyze_exchange_internal |->
            [exchange_name \in Exchanges |->
                {analyze_exchange_internal(calculator, ExchangeLiterals[exchange_name],
                                           DefaultMarketId, runners, stake) :
                    runners \in ListsOf(RunnerPrices)}],
         analyze_cross_exchange |->
            {analyze_cross_exchange(calculator, matches, stake) :
                matches \in ListsOf(RunnerMatches)},
         analyze_bookmaker_exchange |->
            [exchange_name \in Exchanges |->
                {analyze_bookmaker_exchange(calculator, exchange_name, matches, stake) :
                    matches \in ListsOf(BookmakerMatches)}],
         find_cross_platform_opportunities |->
            {find_cross_platform_opportunities(calculator, matches, stake) :
                matches \in ListsOf(RunnerMatches)},
         find_odds_api_exchange_opportunities |->
            [exchange_platform \in Exchanges |->
                {find_odds_api_exchange_opportunities(calculator, exchange_platform, matches, stake) :
                    matches \in ListsOf(BookmakerMatches)}]]]

\* a call of one of the two functions with its arguments, before its loops
AnalysisInit ==
    \E fn \in AnalysisFunctions, calculator \in Calculators,
       stake \in AnalysisStakes, min_profit_percentage \in MinProfitPercentages :
        call = [fn |-> fn, pc |-> "loops", calculator |-> calculator,
                stake |-> stake,
                min_profit_percentage |-> min_profit_percentage,
                stage |-> 1, all_opportunities |-> <<>>, result |-> None]

\* all_opportunities.extend(found), or the exception leaving the call
Extend(found, stage) ==
    IF found.kind = "raise"
    THEN call' = [call EXCEPT !.pc = "raised", !.result = found]
    ELSE /\ Len(call.all_opportunities) + Len(found.list) <= MaxOpportunities
         /\ call' = [call EXCEPT !.stage = stage,
                                 !.all_opportunities = @ \o found.list]

\* hedge_strategy_manager.py lines 334-352: one market of one exchange
\* (step 1 for Betfair, step 2 for Smarkets)
AnalyzeExchangeInternal ==
    /\ call.fn = "analyze_all_hedge_types"
    /\ call.pc = "loops"
    /\ \E exchange_name \in Exchanges :
         LET stage == IF exchange_name = "betfair" THEN 1 ELSE 2
         IN  /\ call.stage <= stage
             /\ \E found \in AnalysisOutcomes[call.calculator, call.stake].analyze_exchange_internal[exchange_name] :
                  Extend(found, stage)
    /\ UNCHANGED notCall

\* lines 354-379: one matched Betfair-Smarkets market (step 3)
AnalyzeCrossExchange ==
    /\ call.fn = "analyze_all_hedge_types"
    /\ call.pc = "loops"
    /\ call.stage <= 3
    /\ \E found \in AnalysisOutcomes[call.calculator, call.stake].analyze_cross_exchange :
         Extend(found, 3)
    /\ UNCHANGED notCall

\* lines 381-435: one matched bookmaker-exchange market (step 4 for
\* Betfair, step 5 for Smarkets)
AnalyzeBookmakerExchange ==
    /\ call.fn = "analyze_all_hedge_types"
    /\ call.pc = "loops"
    /\ \E exchange_name \in Exchanges :
         LET stage == IF exchange_name = "betfair" THEN 4 ELSE 5
         IN  /\ call.stage <= stage
             /\ \E found \in AnalysisOutcomes[call.calculator, call.stake].analyze_bookmaker_exchange[exchange_name] :
                  Extend(found, stage)
    /\ UNCHANGED notCall

\* lines 444-453: filter, sort, return
FilterAndSort ==
    /\ call.fn = "analyze_all_hedge_types"
    /\ call.pc = "loops"
    /\ call' = [call EXCEPT
                  !.pc = "done",
                  !.result = [kind |-> "list",
                              list |-> SortedByProfitPercentage(
                                  FilteredByMinProfit(call.all_opportunities,
                                                      call.min_profit_percentage))]]
    /\ UNCHANGED notCall

\* the scan's result filtered before it is added (lines 245-246, 268-269, 291-292)
FilteredScan(found, min_profit_percentage) ==
    IF found.kind = "raise" THEN found
    ELSE [kind |-> "opportunities",
          list |-> FilteredByMinProfit(found.list, min_profit_percentage)]

\* hedge_calculator.py lines 224-247: a market matched between the exchanges
ScanCrossPlatform ==
    /\ call.fn = "find_all_cross_platform_opportunities"
    /\ call.pc = "loops"
    /\ \E scanned \in AnalysisOutcomes[call.calculator, call.stake].find_cross_platform_opportunities :
         \E found \in {FilteredScan(scanned, call.min_profit_percentage)} :
             Extend(found, 1)
    /\ UNCHANGED notCall

\* lines 249-293: a market matched between the bookmaker and an exchange
ScanOddsApiExchange ==
    /\ call.fn = "find_all_cross_platform_opportunities"
    /\ call.pc = "loops"
    /\ \E exchange_platform \in Exchanges :
         \E scanned \in AnalysisOutcomes[call.calculator, call.stake].find_odds_api_exchange_opportunities[exchange_platform] :
             \E found \in {FilteredScan(scanned, call.min_profit_percentage)} :
                 Extend(found, 1)
    /\ UNCHANGED notCall

\* line 296
SortAllOpportunities ==
    /\ call.fn = "find_all_cross_platform_opportunities"
    /\ call.pc = "loops"
    /\ call' = [call EXCEPT
                  !.pc = "done",
                  !.result = [kind |-> "list",
                              list |-> SortedByProfitPercentage(call.all_opportunities)]]
    /\ UNCHANGED notCall

AnalysisNext ==
    \/ AnalyzeExchangeInternal
    \/ AnalyzeCrossExchange
    \/ AnalyzeBookmakerExchange
    \/ FilterAndSort
    \/ ScanCrossPlatform
    \/ ScanOddsApiExchange
    \/ SortAllOpportunities

----------------------------------------------------------------------------
(* MarketMatcher: the string utilities.                                    *)

Digits == {"0", "1", "2", "3", "4", "5", "6", "7", "8", "9"}

\* \w of the regular expressions
IsWord(c) == c \in Range(UpperLetters) \cup Range(LowerLetters) \cup Digits \cup {"_"}

\* \s of the regular expressions
IsSpace(c) == c = " "

\* str.strip()
Strip(s) ==
    LET kept == {i \in DOMAIN s : ~IsSpace(s[i])}
    IN  IF kept = {} THEN <<>>
        ELSE SubSeq(s, CHOOSE i \in kept : \A j \in kept : i <= j,
                       CHOOSE i \in kept : \A j \in kept : j <= i)

\* sub occurs in s at position i
OccursAt(s, sub, i) ==
    /\ i >= 1
    /\ i + Len(sub) - 1 <= Len(s)
    /\ \A k \in DOMAIN sub : s[i + k - 1] = sub[k]

\* the position of the first occurrence of sub in s, 0 when there is none
\* (sub in s; s.split(sub, 1))
Find(s, sub) ==
    LET at == {i \in 1 .. Len(s) : OccursAt(s, sub, i)}
    IN  IF at = {} THEN 0 ELSE CHOOSE i \in at : \A j \in at : i <= j

\* the suffixes removed by the first substitution of line 23
TeamSuffixes == {<<"F", "C">>, <<"U", "n", "i", "t", "e", "d">>, <<"C", "i", "t", "y">>}

\* re.sub(r'\s+FC$|\s+United$|\s+City$', '', name): a suffix at the end of
\* the name is removed with the whole run of white space before it
WithoutTeamSuffix(name) ==
    LET found == {suffix \in TeamSuffixes :
                    /\ Len(name) > Len(suffix)
                    /\ OccursAt(name, suffix, Len(name) - Len(suffix) + 1)
                    /\ IsSpace(name[Len(name) - Len(suffix)])}
    IN  IF found = {} THEN name
        ELSE LET suffix == CHOOSE x \in found : TRUE
                 head == SubSeq(name, 1, Len(name) - Len(suffix))
                 ends == {i \in 0 .. Len(head) :
                            \A j \in i + 1 .. Len(head) : IsSpace(head[j])}
             IN  SubSeq(head, 1, CHOOSE i \in ends : \A j \in ends : i <= j)

\* an identity in place of the normalisation
Unnormalized(name) == name

\* MarketMatcher._normalize_team_name, lines 18-27
_normalize_team_name(name) ==
    Strip(ToLower(SelectSeq(WithoutTeamSuffix(name),
                            LAMBDA c : IsWord(c) \/ IsSpace(c))))

\* the length of the common run of a from i and of b from j, inside the
\* windows that end at ahi and bhi
RunLength(a, b, i, j, ahi, bhi) ==
    LET runs == {k \in 0 .. ahi - i + 1 :
                   /\ j + k - 1 <= bhi
                   /\ \A d \in 0 .. k - 1 : a[i + d] = b[j + d]}
    IN  CHOOSE k \in runs : \A m \in runs : m <= k

\* SequenceMatcher.find_longest_match without junk: the longest block common
\* to a[alo..ahi] and b[blo..bhi], the earliest in a and then the earliest
\* in b among the longest
LongestMatch(a, b, alo, ahi, blo, bhi) ==
    LET blocks == {<<i, j, RunLength(a, b, i, j, ahi, bhi)>> :
                      i \in alo .. ahi, j \in blo .. bhi}
    IN  IF blocks = {} THEN <<alo, blo, 0>>
        ELSE CHOOSE x \in blocks :
               \A y \in blocks :
                   \/ x[3] > y[3]
                   \/ x[3] = y[3] /\ x[1] < y[1]
                   \/ x[3] = y[3] /\ x[1] = y[1] /\ x[2] <= y[2]

\* SequenceMatcher.get_matching_blocks: the number of matched characters,
\* the longest block and then the same to its left and to its right
RECURSIVE Matched(_, _, _, _, _, _)
Matched(a, b, alo, ahi, blo, bhi) ==
    IF alo > ahi \/ blo > bhi THEN 0
    ELSE LET counts ==
               {IF x[3] = 0 THEN 0
                ELSE x[3] + Matched(a, b, alo, x[1] - 1, blo, x[2] - 1)
                          + Matched(a, b, x[1] + x[3], ahi, x[2] + x[3], bhi) :
                    x \in {LongestMatch(a, b, alo, ahi, blo, bhi)}}
         IN  CHOOSE n \in counts : TRUE

\* MarketMatcher._calculate_similarity, lines 30-34:
\* SequenceMatcher(None, str1, str2).ratio() = 2.0 * matches / length, and
\* 1.0 when both strings are empty; an exact fraction
_calculate_similarity(str1, str2) ==
    IF Len(str1) + Len(str2) = 0 THEN Rat(1)
    ELSE Norm(2 * Matched(str1, str2, 1, Len(str1), 1, Len(str2)),
              Len(str1) + Len(str2))

----------------------------------------------------------------------------
(* MarketMatcher.find_runner_matches and MarketMatcher.match_markets.      *)
(* Similarities and thresholds are exact fractions; a threshold is given   *)
(* in hundredths.                                                          *)

\* a list of runners has at most MaxSelections runners
MaxSelections == 2
\* a list of markets has at most MaxMarkets markets
MaxMarkets == 2

\* lines 133 and 179: similarity > best_score and similarity >= similarity_threshold
Improves(similarity, best_score, similarity_threshold) ==
    /\ RLess(best_score, similarity)
    /\ ~RLess(similarity, Hundredths(similarity_threshold))

\* lines 172-173: best_match = None (position 0), best_score = 0
NoBest == [best_match |-> 0, best_score |-> Rat(0), raised |-> FALSE]

\* lines 175-181: best_match and best_score after the first j Smarkets
\* runners; best_match is the position of the runner in the list
RECURSIVE ScanRunners(_, _, _, _)
ScanRunners(betfair_name, smarkets_runners, similarity_threshold, j) ==
    IF j = 0 THEN NoBest
    ELSE CHOOSE after \in
           {IF Improves(similarity, best.best_score, similarity_threshold)
            THEN [best EXCEPT !.best_match = j, !.best_score = similarity]
            ELSE best :
              best \in {ScanRunners(betfair_name, smarkets_runners,
                                    similarity_threshold, j - 1)},
              similarity \in {_calculate_similarity(betfair_name,
                                 _normalize_team_name(smarkets_runners[j].runner_name))}} : TRUE

\* lines 168-184: runner_matches after the first i Betfair runners
RECURSIVE RunnerMatchesAfter(_, _, _, _)
RunnerMatchesAfter(betfair_runners, smarkets_runners, similarity_threshold, i) ==
    IF i = 0 THEN EmptyStore
    ELSE CHOOSE after \in
           {IF best.best_match # 0
            THEN Stored(runner_matches, betfair_runners[i].selection_id,
                        smarkets_runners[best.best_match].selection_id)
            ELSE runner_matches :
              runner_matches \in {RunnerMatchesAfter(betfair_runners, smarkets_runners,
                                                     similarity_threshold, i - 1)},
              best \in {ScanRunners(_normalize_team_name(betfair_runners[i].runner_name),
                                    smarkets_runners, similarity_threshold,
                                    Len(smarkets_runners))}} : TRUE

\* a variant that refuses a mapping in which a Smarkets selection is used twice
FindRunnerMatchesUnique(betfair_runners, smarkets_runners, similarity_threshold) ==
    CHOOSE result \in
      {IF \E a, b \in DOMAIN map : a # b /\ map[a] = map[b]
       THEN Raise("ValueError")
       ELSE [kind |-> "dict", map |-> map] :
         map \in {RunnerMatchesAfter(betfair_runners, smarkets_runners,
                                     similarity_threshold, Len(betfair_runners))}} : TRUE

\* MarketMatcher.find_runner_matches, lines 152-186
find_runner_matches(betfair_runners, smarkets_runners, similarity_threshold) ==
    [kind |-> "dict",
     map |-> RunnerMatchesAfter(betfair_runners, smarkets_runners,
                                similarity_threshold, Len(betfair_runners))]


\* the keys of market_mappings, lines 42-48
MarketMappingKeys ==
    {<<"m", "a", "t", "c", "h", " ", "o", "d", "d", "s">>, <<"m", "a", "t", "c", "h", " ", "b", "e", "t", "t", "i", "n", "g">>, <<"1", "x", "2">>, <<"w", "i", "n", "-", "d", "r", "a", "w", "-", "w", "i", "n">>, <<"w", "i", "n", "n", "e", "r">>}

match_odds == <<"m", "a", "t", "c", "h", "_", "o", "d", "d", "s">>

AlwaysMatchOdds(name) == match_odds

\* MarketMatcher._normalize_market_name, lines 37-55
_normalize_market_name(name) ==
    CHOOSE normalized \in
      {IF \E key \in MarketMappingKeys : Find(name_lower, key) # 0
       THEN match_odds ELSE name_lower :
         name_lower \in {Strip(ToLower(name))}} : TRUE

\* line 62
separators == <<<<" ", "v", "s", " ">>, <<" ", "v", " ">>, <<" ", "-", " ">>, <<" ", "@", " ">>>>

\* MarketMatcher._extract_teams_from_event, lines 57-73
_extract_teams_from_event(event_name) ==
    LET found == {k \in DOMAIN separators : Find(event_name, separators[k]) # 0}
    IN  IF found = {} THEN <<_normalize_team_name(event_name), <<>>>>
        ELSE LET separator == separators[CHOOSE k \in found : \A m \in found : k <= m]
                 at == Find(event_name, separator)
             IN  <<_normalize_team_name(SubSeq(event_name, 1, at - 1)),
                   _normalize_team_name(SubSeq(event_name, at + Len(separator),
                                               Len(event_name)))>>

\* a start time as the venue gives it: absent, an ISO timestamp (its
\* seconds since the epoch), or text that is no timestamp
NoTime == [kind |-> "None", seconds |-> 0]
IsoTime(seconds) == [kind |-> "iso", seconds |-> seconds]
BadTime == [kind |-> "text", seconds |-> 0]

StartTimeUnchecked(betfair_start_time, smarkets_start_time) ==
    IF betfair_start_time.kind = "text" \/ smarkets_start_time.kind = "text"
    THEN "raise" ELSE "go"

\* lines 119-124: the outcome of the start-time check: "raise" when a
\* timestamp does not parse (datetime.fromisoformat raises ValueError),
\* "skip" when the times are more than 3600 seconds apart, else "go"
StartTimeCheck(betfair_start_time, smarkets_start_time) ==
    IF betfair_start_time.kind = "None" \/ smarkets_start_time.kind = "None"
    THEN "go"
    ELSE IF betfair_start_time.kind = "text" \/ smarkets_start_time.kind = "text"
    THEN "raise"
    ELSE IF Abs(betfair_start_time.seconds - smarkets_start_time.seconds) > 3600
    THEN "skip"
    ELSE "go"

\* a variant of line 107 that offers only the markets no earlier Betfair
\* market has chosen
CandidatesNotChosen(smarkets_markets, chosen) == DOMAIN smarkets_markets \ chosen

\* line 107: every Betfair market scans the whole list of Smarkets markets
\* (positions in the list), whatever earlier Betfair markets have chosen
Candidates(smarkets_markets, chosen) == DOMAIN smarkets_markets

\* lines 107-135: best_match and best_score after the first j Smarkets markets
RECURSIVE ScanMarkets(_, _, _, _, _)
ScanMarkets(betfair_market, smarkets_markets, offered, similarity_threshold, j) ==
    IF j = 0 THEN NoBest
    ELSE CHOOSE after \in
           {IF best.raised \/ j \notin offered
               \/ _normalize_market_name(Get(smarkets_markets[j], "market_name", <<>>)) # match_odds
            THEN best
            ELSE IF check = "raise" THEN [best EXCEPT !.raised = TRUE]
            ELSE IF check = "skip" THEN best
            ELSE LET betfair_teams ==
                         _extract_teams_from_event(Get(betfair_market, "event_name", <<>>))
                     smarkets_teams ==
                         _extract_teams_from_event(Get(smarkets_markets[j], "event_name", <<>>))
                 IN  CHOOSE scored \in
                       {IF Improves(avg_similarity, best.best_score, similarity_threshold)
                        THEN [best EXCEPT !.best_match = j, !.best_score = avg_similarity]
                        ELSE best :
                          avg_similarity \in
                            {RDiv(RAdd(_calculate_similarity(betfair_teams[1], smarkets_teams[1]),
                                       _calculate_similarity(betfair_teams[2], smarkets_teams[2])),
                                  Rat(2))}} : TRUE :
              best \in {ScanMarkets(betfair_market, smarkets_markets, offered,
                                    similarity_threshold, j - 1)},
              check \in {StartTimeCheck(Get(betfair_market, "startTime", NoTime),
                                        Get(smarkets_markets[j], "start_time", NoTime))}} : TRUE

\* lines 91-92: matched_markets = [], before the first Betfair market
NoMatches == [matched_markets |-> <<>>, chosen |-> {}, raised |-> FALSE]

\* lines 137-147: the dictionary appended for a match
MatchedPair(betfair_market, best_match, best_score) ==
    [betfair_market_id |-> Get(betfair_market, "id", NoId),
     smarkets_market_id |-> Get(best_match, "market_id", NoId),
     similarity_score |-> best_score,
     betfair_market |-> betfair_market,
     smarkets_market |-> best_match]

\* lines 93-147: matched_markets after the first i Betfair markets
RECURSIVE MatchedAfter(_, _, _, _)
MatchedAfter(betfair_markets, smarkets_markets, similarity_threshold, i) ==
    IF i = 0 THEN NoMatches
    ELSE CHOOSE after \in
           {IF so_far.raised
               \/ _normalize_market_name(Get(betfair_markets[i], "name", <<>>)) # match_odds
            THEN so_far
            ELSE CHOOSE appended \in
                   {IF best.raised THEN [so_far EXCEPT !.raised = TRUE]
                    ELSE IF best.best_match = 0 THEN so_far
                    ELSE [so_far EXCEPT
                            !.matched_markets =
                                Append(@, MatchedPair(betfair_markets[i],
                                                      smarkets_markets[best.best_match],
                                                      best.best_score)),
                            !.chosen = @ \cup {best.best_match}] :
                      best \in {ScanMarkets(betfair_markets[i], smarkets_markets,
                                            Candidates(smarkets_markets, so_far.chosen),
                                            similarity_threshold,
                                            Len(smarkets_markets))}} : TRUE :
              so_far \in {MatchedAfter(betfair_markets, smarkets_markets,
                                       similarity_threshold, i - 1)}} : TRUE

\* MarketMatcher.match_markets, lines 75-150
match_markets(betfair_markets, smarkets_markets, similarity_threshold) ==
    CHOOSE result \in
      {IF after.raised THEN Raise("ValueError")
       ELSE [kind |-> "list", list |-> after.matched_markets] :
         after \in {MatchedAfter(betfair_markets, smarkets_markets,
                                 similarity_threshold, Len(betfair_markets))}} : TRUE

\* the Betfair runners considered: "Abcd FC", "abcd", "abce", "xy!"
BetfairRunnerPool ==
    {[runner_name |-> <<"A", "b", "c", "d", " ", "F", "C">>, selection_id |-> 1],
     [runner_name |-> <<"a", "b", "c", "d">>, selection_id |-> 2],
     [runner_name |-> <<"a", "b", "c", "e">>, selection_id |-> 3],
     [runner_name |-> <<"x", "y", "!">>, selection_id |-> 4]}

\* the Smarkets runners considered: "abcd", "abcf", "xz", "q"
SmarketsRunnerPool ==
    {[runner_name |-> <<"a", "b", "c", "d">>, selection_id |-> 11],
     [runner_name |-> <<"a", "b", "c", "f">>, selection_id |-> 12],
     [runner_name |-> <<"x", "z">>, selection_id |-> 13],
     [runner_name |-> <<"q">>, selection_id |-> 14]}

\* the Betfair markets considered: "Abcd FC v Xy" at 0 s, "abce vs xy"
\* without a start time, an "Over Under" market, and "abcd v xy" with a
\* start time that is no timestamp; and "abcd v xy" as
\* BetfairAPI.list_live_markets formats it, under the keys market_id,
\* market_name and start_time
BetfairMarketPool ==
    {[id |-> "b1", name |-> <<"M", "a", "t", "c", "h", " ", "O", "d", "d", "s">>,
      event_name |-> <<"A", "b", "c", "d", " ", "F", "C", " ", "v", " ", "X", "y">>,
      startTime |-> IsoTime(0)],
     [id |-> "b2", name |-> <<"M", "a", "t", "c", "h", " ", "O", "d", "d", "s">>,
      event_name |-> <<"a", "b", "c", "e", " ", "v", "s", " ", "x", "y">>,
      startTime |-> NoTime],
     [id |-> "b3", name |-> <<"O", "v", "e", "r", " ", "U", "n", "d", "e", "r">>,
      event_name |-> <<"a", "b", "c", "d", " ", "v", " ", "x", "y">>,
      startTime |-> IsoTime(0)],
     [id |-> "b4", name |-> <<"M", "a", "t", "c", "h", " ", "O", "d", "d", "s">>,
      event_name |-> <<"a", "b", "c", "d", " ", "v", " ", "x", "y">>,
      startTime |-> BadTime],
     [market_id |-> "b5", market_name |-> <<"M", "a", "t", "c", "h", " ", "O", "d", "d", "s">>,
      event_name |-> <<"a", "b", "c", "d", " ", "v", " ", "x", "y">>,
      start_time |-> IsoTime(0)]}

\* the Smarkets markets considered: "abcd - xy" at 3600 s, "abcf @ xy" at
\* 0 s, "abcd v xy" at 3601 s, "q v w" without a start time, and "abcd v xy"
\* with its label under the key name
SmarketsMarketPool ==
    {[market_id |-> "s1", market_name |-> <<"W", "i", "n", "n", "e", "r">>,
      event_name |-> <<"a", "b", "c", "d", " ", "-", " ", "x", "y">>,
      start_time |-> IsoTime(3600)],
     [market_id |-> "s2", market_name |-> <<"1", "X", "2">>,
      event_name |-> <<"a", "b", "c", "f", " ", "@", " ", "x", "y">>,
      start_time |-> IsoTime(0)],
     [market_id |-> "s3", market_name |-> <<"M", "a", "t", "c", "h", " ", "B", "e", "t", "t", "i", "n", "g">>,
      event_name |-> <<"a", "b", "c", "d", " ", "v", " ", "x", "y">>,
      start_time |-> IsoTime(3601)],
     [market_id |-> "s4", market_name |-> <<"M", "a", "t", "c", "h", " ", "O", "d", "d", "s">>,
      event_name |-> <<"q", " ", "v", " ", "w">>,
      start_time |-> NoTime],
     [market_id |-> "s5", name |-> <<"M", "a", "t", "c", "h", " ", "O", "d", "d", "s">>,
      event_name |-> <<"a", "b", "c", "d", " ", "v", " ", "x", "y">>]}

\* the lists of at most max different elements of a pool
ListsWithin(pool, max) ==
    {list \in UNION {[1 .. n -> pool] : n \in 0 .. max} :
        \A i, j \in DOMAIN list : i # j => list[i] # list[j]}

\* thresholds for runners, in hundredths: 0.0, 0.7 (the default) and 0.75
RunnerThresholds == {0, 70, 75}

\* thresholds for markets, in hundredths: 0.0, 0.8 (the default) and 1.0
MarketThresholds == {0, 80, 100}

\* the matcher constructed, no function called yet
MatcherInit == call = [fn |-> "MarketMatcher"]

\* a call of find_runner_matches
FindRunnerMatches ==
    /\ call.fn = "MarketMatcher"
    /\ \E betfair_runners \in ListsWithin(BetfairRunnerPool, MaxSelections),
          smarkets_runners \in ListsWithin(SmarketsRunnerPool, MaxSelections),
          similarity_threshold \in RunnerThresholds :
         call' = [fn |-> "find_runner_matches",
                  betfair_runners |-> betfair_runners,
                  smarkets_runners |-> smarkets_runners,
                  similarity_threshold |-> similarity_threshold,
                  result |-> find_runner_matches(betfair_runners, smarkets_runners,
                                                 similarity_threshold)]
    /\ UNCHANGED notCall

\* a call of match_markets
MatchMarkets ==
    /\ call.fn = "MarketMatcher"
    /\ \E betfair_markets \in ListsWithin(BetfairMarketPool, MaxMarkets),
          smarkets_markets \in ListsWithin(SmarketsMarketPool, MaxMarkets),
          similarity_threshold \in MarketThresholds :
         call' = [fn |-> "match_markets",
                  betfair_markets |-> betfair_markets,
                  smarkets_markets |-> smarkets_markets,
                  similarity_threshold |-> similarity_threshold,
                  result |-> match_markets(betfair_markets, smarkets_markets,
                                           similarity_threshold)]
    /\ UNCHANGED notCall

MatcherNext == FindRunnerMatches \/ MatchMarkets

----------------------------------------------------------------------------
(* ThreeWayHedgeCalculator: odds are exact rationals, stakes are in currency *)
(* units, the commission in percent; every computed amount is a rational  *)

\* the number of selections calculate_three_way_hedge requires and tries
Outcomes == 3

_calculate_implied_probability(decimal_odds) == RDiv(Rat(1), decimal_odds)

WiderTolerance == Norm(105, 100)

\* the sum of implied probabilities above which no allocation is attempted
ProbSumTolerance == Norm(103, 100)

NeverRejected(prob_sum) == FALSE

\* prob_sum > 1.03
Rejected(prob_sum) == RLess(ProbSumTolerance, prob_sum)

\* Python min(a, b, c): the first of the smallest
RMin3(a, b, c) == RMin(RMin(a, b), c)

\* the implied probabilities of the three legs and their sum
ImpliedProbabilities(back_odds, lay_odds1, lay_odds2) ==
    CHOOSE p \in
        {[imp_prob_back |-> b, imp_prob_lay1 |-> l1, imp_prob_lay2 |-> l2,
          prob_sum |-> RAdd(RAdd(b, l1), l2)] :
            b \in {_calculate_implied_probability(back_odds)},
            l1 \in {_calculate_implied_probability(lay_odds1)},
            l2 \in {_calculate_implied_probability(lay_odds2)}} : TRUE

\* every lay stake equal to the back stake
EqualStakes(base_stake, back_odds, lay_odds1, lay_odds2, p) ==
    CHOOSE s \in
        {[back_stake |-> back_stake, lay_stake1 |-> back_stake, lay_stake2 |-> back_stake] :
            back_stake \in {RMul(Rat(base_stake), RDiv(p.imp_prob_back, p.prob_sum))}} : TRUE

\* the three stakes: the back stake is the base stake's share of the backed
\* leg, each lay stake is the back return divided by the lay odds
BalancedStakes(base_stake, back_odds, lay_odds1, lay_odds2, p) ==
    CHOOSE s \in
        {[back_stake |-> back_stake,
          lay_stake1 |-> RDiv(back_return, lay_odds1),
          lay_stake2 |-> RDiv(back_return, lay_odds2)] :
            back_stake \in {RMul(Rat(base_stake), RDiv(p.imp_prob_back, p.prob_sum))},
            back_return \in {RMul(RMul(Rat(base_stake), RDiv(p.imp_prob_back, p.prob_sum)),
                                  back_odds)}} : TRUE

\* the profit of each outcome, the commission taken from the two lay wins
ProfitsByOutcome(exchange_commission, back_odds, lay_odds1, lay_odds2, s) ==
    CHOOSE q \in
        {[profit_if_back_wins_adj |-> RSub(RSub(RMul(s.back_stake, b1), liability1), liability2),
          profit_if_lay1_wins_adj |->
              RMul(RSub(RSub(s.lay_stake1, s.back_stake), liability2), keep),
          profit_if_lay2_wins_adj |->
              RMul(RSub(RSub(s.lay_stake2, s.back_stake), liability1), keep)] :
            b1 \in {RSub(back_odds, Rat(1))},
            liability1 \in {RMul(s.lay_stake1, RSub(lay_odds1, Rat(1)))},
            liability2 \in {RMul(s.lay_stake2, RSub(lay_odds2, Rat(1)))},
            keep \in {RSub(Rat(1), Hundredths(exchange_commission))}} : TRUE

\* the dict of profits by selection name: a later key overwrites an equal one
ProfitByOutcome(back_selection, lay_selection1, lay_selection2, q) ==
    [name \in {back_selection, lay_selection1, lay_selection2} |->
        IF name = lay_selection2 THEN q.profit_if_lay2_wins_adj
        ELSE IF name = lay_selection1 THEN q.profit_if_lay1_wins_adj
        ELSE q.profit_if_back_wins_adj]

ThreeWayHedgeResult(back_selection, back_odds, lay_selection1, lay_odds1, lay_selection2, lay_odds2, p, s, q, min_profit, total_stake) ==
    [kind |-> "ThreeWayHedgeResult",
     profitable |-> TRUE,
     back_selection |-> back_selection,
     back_odds |-> back_odds,
     back_stake |-> s.back_stake,
     lay_selection1 |-> lay_selection1,
     lay_odds1 |-> lay_odds1,
     lay_stake1 |-> s.lay_stake1,
     lay_selection2 |-> lay_selection2,
     lay_odds2 |-> lay_odds2,
     lay_stake2 |-> s.lay_stake2,
     profit |-> min_profit,
     roi |-> RMul(RDiv(min_profit, total_stake), Rat(100)),
     total_stake |-> total_stake,
     implied_probability_sum |-> p.prob_sum,
     overround |-> RSub(p.prob_sum, Rat(1)),
     profit_by_outcome |-> ProfitByOutcome(back_selection, lay_selection1, lay_selection2, q)]

\* the allocation once the sum of implied probabilities is within tolerance
Allocation(exchange_commission, base_stake, back_selection, back_odds, lay_selection1, lay_odds1, lay_selection2, lay_odds2, p) ==
    CHOOSE r \in
        {IF ~RLess(Rat(0), min_profit) THEN None
         ELSE ThreeWayHedgeResult(back_selection, back_odds, lay_selection1, lay_odds1,
                  lay_selection2, lay_odds2, p, s, q, min_profit,
                  RAdd(RAdd(s.back_stake,
                            RMul(s.lay_stake1, RSub(lay_odds1, Rat(1)))),
                       RMul(s.lay_stake2, RSub(lay_odds2, Rat(1))))) :
            <<s, q, min_profit>> \in
                {<<s1, q1, RMin3(q1.profit_if_back_wins_adj, q1.profit_if_lay1_wins_adj,
                                 q1.profit_if_lay2_wins_adj)>> :
                    <<s1, q1>> \in
                        {<<s2, ProfitsByOutcome(exchange_commission, back_odds, lay_odds1,
                                                lay_odds2, s2)>> :
                            s2 \in {BalancedStakes(base_stake, back_odds, lay_odds1,
                                                   lay_odds2, p)}}}} : TRUE

_optimize_three_way_stakes(exchange_commission, base_stake, back_selection, back_odds, lay_selection1, lay_odds1, lay_selection2, lay_odds2) ==
    CHOOSE r \in
        {IF Rejected(p.prob_sum) THEN None
         ELSE Allocation(exchange_commission, base_stake, back_selection, back_odds,
                         lay_selection1, lay_odds1, lay_selection2, lay_odds2, p) :
            p \in {ImpliedProbabilities(back_odds, lay_odds1, lay_odds2)}} : TRUE

AnyBelowOne(odds) == \E k \in DOMAIN odds : RLess(odds[k], Rat(1))

\* any(o <= 1.0 for o in odds)
AnyAtMostOne(odds) == \E k \in DOMAIN odds : ~RLess(Rat(1), odds[k])

\* the first two checks of calculate_three_way_hedge: TRUE when it returns None
NotThreeWay(selection_names, back_odds, lay_odds) ==
    \/ Len(selection_names) # Outcomes
    \/ Len(back_odds) # Outcomes
    \/ Len(lay_odds) # Outcomes
    \/ AnyAtMostOne(back_odds)
    \/ AnyAtMostOne(lay_odds)

\* [j for j in range(3) if j != i]
lay_indices(i) == SelectSeq([k \in 1 .. Outcomes |-> k - 1], LAMBDA j : j # i)

\* the allocation that backs outcome i (from 0) and lays the other two
OptimizedFor(exchange_commission, base_stake, selection_names, back_odds, lay_odds, i) ==
    _optimize_three_way_stakes(exchange_commission, base_stake,
        selection_names[i + 1], back_odds[i + 1],
        selection_names[lay_indices(i)[1] + 1], lay_odds[lay_indices(i)[1] + 1],
        selection_names[lay_indices(i)[2] + 1], lay_odds[lay_indices(i)[2] + 1])

NotWorse(result, best_profit) ==
    /\ result.kind # "None"
    /\ result.profitable
    /\ ~RLess(result.profit, best_profit)

\* result and result.profitable and result.profit > best_profit
Better(result, best_profit) ==
    /\ result.kind # "None"
    /\ result.profitable
    /\ RLess(best_profit, result.profit)

\* commissions of the exchange, in percent: none and the default
ExchangeCommissions == {0, 5}

\* odds to back: 1.0, 66.66, 66.67 and 200.0
ThreeWayBackOdds == {Rat(1), Norm(6666, 100), Norm(6667, 100), Rat(200)}

\* odds to lay: 1.0, 1.6, 200/103 (1.9417...), 2.0 and 2.5
ThreeWayLayOdds == {Rat(1), Norm(8, 5), Norm(200, 103), Rat(2), Norm(5, 2)}

ThreeWayNames == <<"Home", "Draw", "Away", "Other">>

\* the lists of the required length, and each of them with its last element
\* left out or repeated
ThreeWayLists(pool) ==
    LET exact == [1 .. Outcomes -> pool]
    IN  exact \cup {SubSeq(list, 1, Outcomes - 1) : list \in exact}
              \cup {Append(list, list[Outcomes]) : list \in exact}

ThreeWayStakes == {0, 100}

\* the calculator constructed with its commission, no function called yet
ThreeWayInit ==
    \E exchange_commission \in ExchangeCommissions :
        call = [fn |-> "ThreeWayHedgeCalculator",
                exchange_commission |-> exchange_commission]

\* a call of calculate_three_way_hedge up to the loop
CalculateThreeWayHedge ==
    /\ call.fn = "ThreeWayHedgeCalculator"
    /\ \E n \in Outcomes - 1 .. Outcomes + 1,
          back_odds \in ThreeWayLists(ThreeWayBackOdds),
          lay_odds \in ThreeWayLists(ThreeWayLayOdds),
          base_stake \in ThreeWayStakes :
         call' = [fn |-> "calculate_three_way_hedge",
                  exchange_commission |-> call.exchange_commission,
                  selection_names |-> SubSeq(ThreeWayNames, 1, n),
                  back_odds |-> back_odds,
                  lay_odds |-> lay_odds,
                  base_stake |-> base_stake,
                  pc |-> IF NotThreeWay(SubSeq(ThreeWayNames, 1, n), back_odds, lay_odds)
                         THEN "done" ELSE "loop",
                  i |-> 0,
                  best_result |-> None,
                  best_profit |-> Rat(0),
                  result |-> None]
    /\ UNCHANGED notCall

\* one turn of the loop: outcome i backed, the other two laid
TryOutcome ==
    /\ call.fn = "calculate_three_way_hedge"
    /\ call.pc = "loop"
    /\ call.i < Outcomes
    /\ \E result \in {OptimizedFor(call.exchange_commission, call.base_stake,
                                   call.selection_names, call.back_odds,
                                   call.lay_odds, call.i)} :
         call' = [call EXCEPT
                    !.i = @ + 1,
                    !.best_result = IF Better(result, call.best_profit)
                                    THEN result ELSE @,
                    !.best_profit = IF Better(result, call.best_profit)
                                    THEN result.profit ELSE @]
    /\ UNCHANGED notCall

\* return best_result
ReturnBest ==
    /\ call.fn = "calculate_three_way_hedge"
    /\ call.pc = "loop"
    /\ call.i = Outcomes
    /\ call' = [call EXCEPT !.pc = "done", !.result = call.best_result]
    /\ UNCHANGED notCall

ThreeWayNext == CalculateThreeWayHedge \/ TryOutcome \/ ReturnBest

----------------------------------------------------------------------------
(* HedgeTypeAnalyzer's analyses and HedgeCalculator's scans called          *)
(* directly, one call at a time, on markets whose prices include values at  *)
(* and below 1.0.  The analyses keep no state between calls, so one call   *)
(* is followed per analyzer, kept with its arguments and what it returned. *)

\* a direct call of a cross-venue or bookmaker analysis has at most
\* MaxMatches matched runners
MaxMatches == 1

\* HedgeTypeAnalyzer.analyze_bookmaker_bookmaker, lines 345-346: the lookup
\* {runner.get("selection_id"): runner}; the last runner of an id is kept
RunnersById(runners) ==
    [selection_id \in {Get(runners[n], "selection_id", NoId) : n \in DOMAIN runners} |->
        runners[CHOOSE n \in DOMAIN runners :
                  /\ Get(runners[n], "selection_id", NoId) = selection_id
                  /\ \A later \in DOMAIN runners :
                        Get(runners[later], "selection_id", NoId) = selection_id
                        => later <= n]]

\* a variant of the split that halves the total stake
HalvedStake(total_stake, bm1_odds, bm2_odds) == RDiv(total_stake, Rat(2))

\* line 363
Bm1Stake(total_stake, bm1_odds, bm2_odds) ==
    RDiv(RMul(total_stake, bm2_odds), RAdd(bm1_odds, bm2_odds))

\* lines 380-411: the opportunity of two back bets, without commission
BookmakerOpportunity(bm1_market_id, bm2_market_id, bm1_selection_id, bm2_selection_id, bm1_odds, bm2_odds, bm1_stake, bm2_stake, min_profit, profit_percentage) ==
    [back_odds |-> bm1_odds.v,
     lay_odds |-> bm2_odds.v,
     stake |-> bm1_stake,
     lay_stake |-> bm2_stake,
     profit |-> min_profit,
     profit_percentage |-> profit_percentage,
     back_market_id |-> bm1_market_id,
     lay_market_id |-> bm2_market_id,
     back_selection_id |-> bm1_selection_id,
     lay_selection_id |-> bm2_selection_id,
     back_commission |-> 0,
     lay_commission |-> 0,
     back_platform |-> "oddsapi",
     lay_platform |-> "oddsapi"]

\* lines 350-412: one pair of opposing selections
BookmakerBookmakerLeg(bm1_market_id, bm2_market_id, bookmaker1_runners, bookmaker2_runners, pair, stake) ==
    IF pair[1] \notin DOMAIN bookmaker1_runners \/ pair[2] \notin DOMAIN bookmaker2_runners
    THEN NoOpportunities
    ELSE
    LET bm1_odds == Get(bookmaker1_runners[pair[1]], "back_odds", NoOdds)
        bm2_odds == Get(bookmaker2_runners[pair[2]], "back_odds", NoOdds)
    IN  IF Falsy(bm1_odds) \/ Falsy(bm2_odds) \/ bm1_odds.v <= 0 \/ bm2_odds.v <= 0
        THEN NoOpportunities
        ELSE
        LET total_stake == Rat(stake)
            bm1_stake == Bm1Stake(total_stake, Hundredths(bm1_odds.v), Hundredths(bm2_odds.v))
            bm2_stake == RSub(total_stake, bm1_stake)
            bm1_return == RMul(bm1_stake, Hundredths(bm1_odds.v))
            bm2_return == RMul(bm2_stake, Hundredths(bm2_odds.v))
            profit_if_bm1_wins == RSub(bm1_return, total_stake)
            profit_if_bm2_wins == RSub(bm2_return, total_stake)
            min_profit == RMin(profit_if_bm1_wins, profit_if_bm2_wins)
        IN  IF stake = 0 THEN Raise("ZeroDivisionError")
            ELSE IF RLess(Rat(0), min_profit)
            THEN [kind |-> "opportunities",
                  list |-> <<BookmakerOpportunity(
                               bm1_market_id, bm2_market_id, pair[1], pair[2],
                               bm1_odds, bm2_odds, bm1_stake, bm2_stake, min_profit,
                               RMul(RDiv(min_profit, total_stake), Rat(100)))>>]
            ELSE NoOpportunities

\* sorted(opportunities, key=lambda x: x.profit, reverse=True) for profits
\* that are not rounded
SortedByExactProfit(opportunities) ==
    IF opportunities.kind = "raise" THEN opportunities
    ELSE LET list == opportunities.list
             before(i) == {j \in DOMAIN list :
                             \/ RLess(list[i].profit, list[j].profit)
                             \/ list[j].profit = list[i].profit /\ j < i}
         IN  [kind |-> "opportunities",
              list |-> [p \in DOMAIN list |->
                          list[CHOOSE i \in DOMAIN list :
                                  Cardinality(before(i)) = p - 1]]]

\* HedgeTypeAnalyzer.analyze_bookmaker_bookmaker, lines 321-414; the
\* opposing selections are the items of the dictionary, in order
analyze_bookmaker_bookmaker(bm1_market_id, bm2_market_id, bookmaker1_odds, bookmaker2_odds, opposing_runner_matches, stake) ==
    CHOOSE found \in
      {SortedByExactProfit(Collected(legs)) :
         legs \in {[n \in DOMAIN opposing_runner_matches |->
                      BookmakerBookmakerLeg(bm1_market_id, bm2_market_id,
                                            RunnersById(bookmaker1_odds),
                                            RunnersById(bookmaker2_odds),
                                            opposing_runner_matches[n], stake)]}} : TRUE

\* the calculators an analyzer is constructed with: the two above and one
\* without commission
DirectCalculators == Calculators \cup {Calculator(0, 0, ODDS_API_MARGIN)}

\* exchange names as callers may write them; the last is no exchange
ExchangeNames ==
    {ExchangeLiterals.betfair,
     <<"B", "e", "t", "f", "a", "i", "r">>,
     ExchangeLiterals.smarkets,
     <<"S", "M", "A", "R", "K", "E", "T", "S">>,
     <<"b", "e", "t", "3", "6", "5">>}

\* runners of an exchange market: two uncrossed books, a crossed book with
\* a positive hedge and one without, a lay price of 1.0, a back price of 1.0
\* over a lay price below it, a back price of 0, a back price of 0.5, and a
\* runner with neither selection id nor lay price
QuotedRunners ==
    {[selection_id |-> "r1", best_back_price |-> SomeOdds(200), best_lay_price |-> SomeOdds(210)],
     [selection_id |-> "r2", best_back_price |-> SomeOdds(300), best_lay_price |-> SomeOdds(310)],
     [selection_id |-> "r3", best_back_price |-> SomeOdds(300), best_lay_price |-> SomeOdds(200)],
     [selection_id |-> "r4", best_back_price |-> SomeOdds(210), best_lay_price |-> SomeOdds(200)],
     [selection_id |-> "r5", best_back_price |-> SomeOdds(300), best_lay_price |-> SomeOdds(100)],
     [selection_id |-> "r6", best_back_price |-> SomeOdds(100), best_lay_price |-> SomeOdds(50)],
     [selection_id |-> "r7", best_back_price |-> SomeOdds(0), best_lay_price |-> SomeOdds(200)],
     [selection_id |-> "r8", best_back_price |-> SomeOdds(50), best_lay_price |-> SomeOdds(150)],
     [best_back_price |-> SomeOdds(300)]}

\* a runner of Betfair matched with a runner of Smarkets
QuotedMatches ==
    {[bf |-> [best_back_price |-> Get(bf, "best_back_price", NoOdds),
              best_lay_price |-> Get(bf, "best_lay_price", NoOdds)],
      sm |-> [best_back_price |-> Get(sm, "best_back_price", NoOdds),
              best_lay_price |-> Get(sm, "best_lay_price", NoOdds)]] :
        bf \in QuotedRunners, sm \in QuotedRunners}

\* a bookmaker's runner (back_odds) matched with an exchange runner
QuotedBookmakerMatches ==
    {[back_odds |-> Get(r, "best_back_price", NoOdds),
      best_lay_price |-> Get(r, "best_lay_price", NoOdds)] : r \in QuotedRunners}

\* at most MaxMatches matched runners
MatchListsOf(matches) == UNION {[1 .. n -> matches] : n \in 0 .. MaxMatches}

\* decimal odds of a bookmaker in hundredths, None and 0
BookmakerOdds ==
    {SomeOdds(150), SomeOdds(200), SomeOdds(300), SomeOdds(400), SomeOdds(0), NoOdds}

SelectionIds == <<"a", "b", "c">>

\* a bookmaker's runners: the k-th has the k-th selection id; None is a
\* runner without back_odds
BookmakerRunnerLists ==
    UNION {{[k \in 1 .. n |->
               IF odds[k].present
               THEN [selection_id |-> SelectionIds[k], back_odds |-> odds[k]]
               ELSE [selection_id |-> SelectionIds[k]]] :
              odds \in [1 .. n -> BookmakerOdds]} : n \in 0 .. MaxMatches}

\* opposing_runner_matches.items(): the keys are distinct, the k-th is the
\* k-th selection id; a value may be an id the second bookmaker lacks
OpposingRunnerMatches ==
    LET ids == {SelectionIds[k] : k \in 1 .. MaxMatches + 1}
    IN  UNION {{[k \in 1 .. n |-> <<SelectionIds[k], values[k]>>] :
                  values \in [1 .. n -> ids]} : n \in 0 .. MaxMatches}

\* HedgeTypeAnalyzer(calculator), HedgeCalculator(...): constructed, not called
DirectInit ==
    \E calculator \in DirectCalculators :
        call = [fn |-> "HedgeTypeAnalyzer", calculator |-> calculator]

CallAnalyzeExchangeInternal ==
    /\ call.fn = "HedgeTypeAnalyzer"
    /\ \E exchange_name \in ExchangeNames, runners \in ListsOf(QuotedRunners),
          stake \in AnalysisStakes :
         call' = [fn |-> "analyze_exchange_internal",
                  calculator |-> call.calculator,
                  exchange_name |-> exchange_name,
                  market_id |-> DefaultMarketId,
                  runners |-> runners,
                  stake |-> stake,
                  result |-> analyze_exchange_internal(
                                 call.calculator, exchange_name, DefaultMarketId,
                                 runners, stake)]
    /\ UNCHANGED notCall

CallAnalyzeCrossExchange ==
    /\ call.fn = "HedgeTypeAnalyzer"
    /\ \E matches \in MatchListsOf(QuotedMatches), stake \in AnalysisStakes :
         call' = [fn |-> "analyze_cross_exchange",
                  calculator |-> call.calculator,
                  matches |-> matches,
                  stake |-> stake,
                  result |-> analyze_cross_exchange(call.calculator, matches, stake)]
    /\ UNCHANGED notCall

CallAnalyzeBookmakerExchange ==
    /\ call.fn = "HedgeTypeAnalyzer"
    /\ \E exchange_name \in Exchanges, matches \in MatchListsOf(QuotedBookmakerMatches),
          stake \in AnalysisStakes :
         call' = [fn |-> "analyze_bookmaker_exchange",
                  calculator |-> call.calculator,
                  exchange_name |-> exchange_name,
                  matches |-> matches,
                  stake |-> stake,
                  result |-> analyze_bookmaker_exchange(
                                 call.calculator, exchange_name, matches, stake)]
    /\ UNCHANGED notCall

CallAnalyzeBookmakerBookmaker ==
    /\ call.fn = "HedgeTypeAnalyzer"
    /\ \E bookmaker1_odds \in BookmakerRunnerLists,
          bookmaker2_odds \in BookmakerRunnerLists,
          opposing_runner_matches \in OpposingRunnerMatches,
          stake \in AnalysisStakes :
         call' = [fn |-> "analyze_bookmaker_bookmaker",
                  calculator |-> call.calculator,
                  bookmaker1_odds |-> bookmaker1_odds,
                  bookmaker2_odds |-> bookmaker2_odds,
                  opposing_runner_matches |-> opposing_runner_matches,
                  stake |-> stake,
                  result |-> analyze_bookmaker_bookmaker(
                                 "bm1", "bm2", bookmaker1_odds, bookmaker2_odds,
                                 opposing_runner_matches, stake)]
    /\ UNCHANGED notCall

CallFindCrossPlatformOpportunities ==
    /\ call.fn = "HedgeTypeAnalyzer"
    /\ \E matches \in MatchListsOf(QuotedMatches), stake \in AnalysisStakes :
         call' = [fn |-> "find_cross_platform_opportunities",
                  calculator |-> call.calculator,
                  matches |-> matches,
                  stake |-> stake,
                  result |-> find_cross_platform_opportunities(
                                 call.calculator, matches, stake)]
    /\ UNCHANGED notCall

CallFindOddsApiExchangeOpportunities ==
    /\ call.fn = "HedgeTypeAnalyzer"
    /\ \E exchange_platform \in Exchanges,
          matches \in MatchListsOf(QuotedBookmakerMatches),
          stake \in AnalysisStakes :
         call' = [fn |-> "find_odds_api_exchange_opportunities",
                  calculator |-> call.calculator,
                  exchange_name |-> exchange_platform,
                  matches |-> matches,
                  stake |-> stake,
                  result |-> find_odds_api_exchange_opportunities(
                                 call.calculator, exchange_platform, matches, stake)]
    /\ UNCHANGED notCall

DirectNext ==
    \/ CallAnalyzeExchangeInternal
    \/ CallAnalyzeCrossExchange
    \/ CallAnalyzeBookmakerExchange
    \/ CallAnalyzeBookmakerBookmaker
    \/ CallFindCrossPlatformOpportunities
    \/ CallFindOddsApiExchangeOpportunities

----------------------------------------------------------------------------
(* Specifications: one per component, the others at rest *)

\* the venue clients constructed with credentials configured, and not called
VenueQuiet == VenueInit /\ smarkets.credentials

\* no pure function is under study
CallQuiet == call = [fn |-> "none"]

\* the manager as constructed, nothing executing
ManagerQuiet == ExecInit /\ PipeInit /\ FetchInit

\* the calculator is not called
CalcQuiet ==
    /\ calcArgs = [back_odds |-> NoOdds, lay_odds |-> NoOdds, stake |-> 0,
                   back_commission |-> 0, lay_commission |-> 0]
    /\ calcPc = "start"
    /\ calcResult = None
    /\ scanResult = None

\* calculate_hedge and the scan leg on every drawn input
SpecCalcInit == CalcInit /\ ManagerQuiet /\ VenueQuiet /\ CallQuiet

SpecCalc == SpecCalcInit /\ [][CalcNext]_vars

\* execute_hedge_bet called up to MaxCalls times while the clock runs
SpecExecInit == ManagerQuiet /\ CalcQuiet /\ VenueQuiet /\ CallQuiet

SpecExec == SpecExecInit /\ [][ExecNext]_vars

\* the same with the coroutine running on: execute_hedge_bet has no
\* suspension point, so a call that has begun takes each of its steps
ExecFairness ==
    /\ WF_vars(MarkInProgress)
    /\ WF_vars(PlaceBackLeg)
    /\ WF_vars(PlaceLayLeg)
    /\ WF_vars(CheckExecution)
    /\ WF_vars(FailExecution)

SpecExecFair == SpecExecInit /\ [][ExecNext]_vars /\ ExecFairness

\* the Smarkets client's requests and the three clients' list_live_markets
SpecVenuesInit == VenueInit /\ CalcQuiet /\ ManagerQuiet /\ CallQuiet

SpecVenues == SpecVenuesInit /\ [][VenueNext]_vars

\* find_optimal_hedge_opportunities called again and again
SpecPipelineInit == ManagerQuiet /\ VenueQuiet /\ CalcQuiet /\ CallQuiet

SpecPipeline == SpecPipelineInit /\ [][PipeNext]_vars

\* fetch_odds_for_matched_markets called up to MaxCycles times
SpecFetchInit == ManagerQuiet /\ VenueQuiet /\ CalcQuiet /\ CallQuiet

SpecFetch == SpecFetchInit /\ [][FetchNext]_vars

SpecAnalysisInit == AnalysisInit /\ ManagerQuiet /\ VenueQuiet /\ CalcQuiet

SpecAnalysis == SpecAnalysisInit /\ [][AnalysisNext]_vars

SpecMatcherInit == MatcherInit /\ ManagerQuiet /\ VenueQuiet /\ CalcQuiet

SpecMatcher == SpecMatcherInit /\ [][MatcherNext]_vars

SpecThreeWayInit == ThreeWayInit /\ ManagerQuiet /\ VenueQuiet /\ CalcQuiet

SpecThreeWay == SpecThreeWayInit /\ [][ThreeWayNext]_vars

SpecDirectInit == DirectInit /\ ManagerQuiet /\ VenueQuiet /\ CalcQuiet

SpecDirect == SpecDirectInit /\ [][DirectNext]_vars

----------------------------------------------------------------------------
(* Properties of calculate_hedge, checked under SpecCalc *)

Min(a, b) == IF a < b THEN a ELSE b

\* back_odds > 1, lay_odds > 1, stake > 0
ValidCall(a) ==
    /\ a.back_odds.present /\ a.back_odds.v > 100
    /\ a.lay_odds.present /\ a.lay_odds.v > 100
    /\ a.stake > 0

\* stake * back_odds / lay_odds, from the raw arguments
ClosedLayStake(a) == Norm(a.stake * a.back_odds.v, a.lay_odds.v)

\* stake*(back_odds-1)*(1-back_commission) - lay_stake*(lay_odds-1), over the
\* common denominator 10^4 * lay_odds
ClosedProfitIfBackWins(a) ==
    Norm(a.stake * (a.back_odds.v - 100) * (100 - a.back_commission) * a.lay_odds.v
             - 100 * a.stake * a.back_odds.v * (a.lay_odds.v - 100),
         10000 * a.lay_odds.v)

\* lay_stake*(1-lay_commission) - stake, over the common denominator 100 * lay_odds
ClosedProfitIfLayWins(a) ==
    Norm(a.stake * a.back_odds.v * (100 - a.lay_commission)
             - 100 * a.stake * a.lay_odds.v,
         100 * a.lay_odds.v)

\* C1: for back_odds > 1, lay_odds > 1, stake > 0 and any commissions,
\* calculate_hedge returns a result whose profit field is exactly the minimum
\* of its profit_if_back_wins and profit_if_lay_wins fields, and these two
\* fields are the documented formulas rounded to 2 decimals.
C1_ProfitIsMinimum ==
    (calcPc = "calc" /\ ValidCall(calcArgs)) =>
        /\ calcResult.kind = "result"
        /\ calcResult.profit =
               Min(calcResult.profit_if_back_wins, calcResult.profit_if_lay_wins)
        /\ calcResult.lay_stake = Round2(ClosedLayStake(calcArgs))
        /\ calcResult.profit_if_back_wins = Round2(ClosedProfitIfBackWins(calcArgs))
        /\ calcResult.profit_if_lay_wins = Round2(ClosedProfitIfLayWins(calcArgs))

\* C1 witness: scenario B (2.0 / 1.9, stake 100, commissions 5% and 2%):
\* 0.26 if the back bet wins, 3.16 if the lay bet wins, profit 0.26
C1_Witness ==
    /\ calcPc = "calc"
    /\ calcArgs.back_odds = SomeOdds(200) /\ calcArgs.lay_odds = SomeOdds(190)
    /\ calcArgs.stake = 100
    /\ calcArgs.back_commission = 5 /\ calcArgs.lay_commission = 2
    /\ calcResult.kind = "result"
    /\ calcResult.profit_if_back_wins = 26
    /\ calcResult.profit_if_lay_wins = 316
    /\ calcResult.profit = 26

\* C2: whenever lay_odds is missing, zero or <= 1.0, or back_odds is missing
\* or <= 0, calculate_hedge returns None (it neither raises nor divides),
\* for every stake, stake = 0 included, and every commission pair.
C2_InvalidOddsYieldNone ==
    (calcPc = "calc"
     /\ (\/ ~calcArgs.lay_odds.present
         \/ calcArgs.lay_odds.v <= 100
         \/ ~calcArgs.back_odds.present
         \/ calcArgs.back_odds.v <= 0)) =>
        calcResult = None

\* C2 witness: lay_odds exactly 1.0 with stake 0 and a usable back price
C2_Witness ==
    /\ calcPc = "calc"
    /\ calcArgs.lay_odds = SomeOdds(100)
    /\ calcArgs.back_odds = SomeOdds(200)
    /\ calcArgs.stake = 0
    /\ calcResult = None

C4_PercentageFromRoundedProfit ==
    (calcPc = "calc" /\ calcResult.kind = "result") =>
        calcResult.profit_percentage =
            Round2(RMul(RDiv(Hundredths(calcResult.profit), Rat(calcArgs.stake)),
                        Rat(100)))

\* C4 amended: profit_percentage is the unrounded profit / stake * 100 rounded
\* to 2 decimals, so for any stake > 0 it agrees with the returned profit
\* field only up to the two roundings:
\* |percentage*stake/100 - profit| <= 0.005*(1 + stake/100).
C4_PercentageFromUnroundedProfit ==
    (calcPc = "calc" /\ calcResult.kind = "result") =>
        /\ calcResult.profit_percentage =
               Round2(Norm(100 * RMin(ClosedProfitIfBackWins(calcArgs),
                                      ClosedProfitIfLayWins(calcArgs))[1],
                           calcArgs.stake
                               * RMin(ClosedProfitIfBackWins(calcArgs),
                                      ClosedProfitIfLayWins(calcArgs))[2]))
        /\ 2 * Abs(calcResult.profit_percentage * calcArgs.stake
                       - 100 * calcResult.profit) <= calcArgs.stake + 100

\* C4 witness: a stake other than 100 where the percentage is not the one the
\* rounded profit field would give
C4_Witness ==
    /\ calcPc = "calc" /\ calcResult.kind = "result"
    /\ calcArgs.stake # 100
    /\ calcResult.profit_percentage #
           Round2(RMul(RDiv(Hundredths(calcResult.profit), Rat(calcArgs.stake)),
                       Rat(100)))

----------------------------------------------------------------------------
(* Properties of find_optimal_hedge_opportunities, checked under SpecPipeline *)

\* C6: whatever the venues do (no markets, a client call that raises, no
\* matching pair), find_optimal_hedge_opportunities propagates no exception:
\* the call never ends by raising.
C6_PipelineNeverRaises ==
    pipe.pc # "raised" /\ pipe.result.kind # "raise"

----------------------------------------------------------------------------
(* Properties of execute_hedge_bet, checked under SpecExec *)

\* C7: once a call has returned, the status of its record is decided by the
\* recorded legs alone: completed when both the back and the lay leg are
\* recorded, partially_completed when exactly one is (or only additional
\* legs are), failed when none is -- also when a leg placement raised after
\* an earlier leg was recorded.
C7_StatusFromRecordedLegs ==
    \A id \in DOMAIN execution_status :
        LET d == execution_status[id]
            legs == (IF d.back_bet # "None" THEN 1 ELSE 0)
                        + (IF d.lay_bet # "None" THEN 1 ELSE 0)
        IN  d.status \notin {"pending", "in_progress"} =>
                /\ legs = 2 => d.status = "completed"
                /\ (legs = 1 \/ (legs = 0 /\ d.additional_legs # <<>>)) =>
                       d.status = "partially_completed"
                /\ (legs = 0 /\ d.additional_legs = <<>>) => d.status = "failed"

\* C8: every call of execute_hedge_bet gets an execution id of its own: no
\* two calls on one manager generate the same id, so no call writes the
\* entry another call created.
C8_OwnExecutionId ==
    \A i, j \in 1 .. Len(callIds) : i # j => callIds[i] # callIds[j]

----------------------------------------------------------------------------
(* Properties of the venue clients, checked under SpecVenues *)

\* C9: one call of SmarketsAPI._make_request issues at most two HTTP
\* requests: the original one and, after a 401 and a successful login, one
\* retry; a retry that is answered 401 again is not retried.
C9_AtMostOneRetry ==
    req.http <= 2

\* C10: when authentication or transport fails (no credentials, login not
\* successful, listing request not answered), list_live_markets of a venue
\* client returns an empty list and raises nothing.
C10_ListLiveMarketsFailSoft ==
    listed.failure \in {"credentials", "login", "request"} =>
        listed.result = PyList(0)

----------------------------------------------------------------------------
(* Properties of fetch_odds_for_matched_markets, checked under SpecFetch *)

\* the fetch of (venue, market_id) failed: it raised or returned a detail
FetchFailed(venue, market_id) ==
    /\ market_id \in DOMAIN fetch.outcomes[venue]
    /\ fetch.outcomes[venue][market_id] \in {"detail", "raise"}

\* C11: a fetch that raises or returns an error detail leaves its market id
\* out of the venue's odds store and stops nothing: the stage never raises,
\* and when it has completed every issued fetch has run, the ids whose fetch
\* returned a snapshot are stored and the others are absent.
C11_FetchFailuresIsolated ==
    /\ fetch.pc # "raised"
    /\ \A venue \in Venues :
         /\ \A market_id \in DOMAIN fetch.outcomes[venue] :
              market_id \in DOMAIN fetch.odds_data[venue]
                  <=> fetch.outcomes[venue][market_id] = "snapshot"
         /\ fetch.pc = "done" => DOMAIN fetch.outcomes[venue] = fetch.ids[venue]

\* C11 witness: a completed stage in which a Betfair fetch raised, another
\* Betfair fetch and a Smarkets fetch stored their snapshots
C11_Witness ==
    /\ fetch.pc = "done"
    /\ \E a, b \in MarketIds :
         /\ a # b
         /\ a \in DOMAIN fetch.outcomes["betfair"]
         /\ fetch.outcomes["betfair"][a] = "raise"
         /\ a \notin DOMAIN fetch.odds_data["betfair"]
         /\ b \in DOMAIN fetch.odds_data["betfair"]
    /\ \E c \in MarketIds :
         /\ FetchFailed("oddsapi", c)
         /\ fetch.outcomes["oddsapi"][c] = "detail"
    /\ fetch.odds_data["smarkets"] # EmptyStore

\* C12: when the stage has completed, odds_cache holds for each venue
\* exactly this cycle's matched market ids whose fetch returned a snapshot,
\* each snapshot fetched in this cycle and written by exactly one task;
\* nothing of an earlier cycle is left.
C12_CacheReplacedWholesale ==
    fetch.pc = "done" =>
        \A venue \in Venues :
            /\ DOMAIN odds_cache[venue] =
                   {market_id \in fetch.ids[venue] :
                        fetch.outcomes[venue][market_id] = "snapshot"}
            /\ \A market_id \in DOMAIN odds_cache[venue] :
                   /\ odds_cache[venue][market_id].cycle = fetch.cycle
                   /\ odds_cache[venue][market_id].market_id = market_id
                   /\ fetch.writes[venue][market_id] = 1

\* C12 witness: a second cycle has completed; the cache it found held a
\* Betfair snapshot for m1, which this cycle's matched markets do not name
\* and the cache no longer holds, and a Smarkets snapshot for m1, which
\* this cycle fetched again
C12_Witness ==
    /\ fetch.pc = "done"
    /\ fetch.cycle = 2
    /\ "m1" \in DOMAIN fetch.previous["betfair"]
    /\ "m1" \notin fetch.ids["betfair"]
    /\ "m1" \notin DOMAIN odds_cache["betfair"]
    /\ "m2" \in DOMAIN odds_cache["betfair"]
    /\ "m1" \in DOMAIN fetch.previous["smarkets"]
    /\ "m1" \in DOMAIN odds_cache["smarkets"]


----------------------------------------------------------------------------
(* Properties of the combined analyses, checked under SpecAnalysis *)

\* the list a completed call returned
AnalysisReturned == call.result.list

\* C13: the list returned by analyze_all_hedge_types and by
\* find_all_cross_platform_opportunities holds only opportunities whose
\* profit_percentage is at least min_profit_percentage, and is ordered by
\* profit_percentage, non-increasing, whatever the order in which the
\* profit-sorted lists of the analyses were concatenated and whatever the stake
C13_FilteredAndSortedByPercentage ==
    (call.fn \in AnalysisFunctions /\ call.pc = "done") =>
        /\ \A i \in 1 .. Len(AnalysisReturned) :
             AnalysisReturned[i].profit_percentage >= call.min_profit_percentage
        /\ \A i \in 1 .. Len(AnalysisReturned) - 1 :
             AnalysisReturned[i].profit_percentage >= AnalysisReturned[i + 1].profit_percentage

\* C13 witness: analyze_all_hedge_types has returned a list of at least two
\* opportunities after dropping one below the threshold, from a
\* concatenation that was not in percentage order
C13_Witness ==
    /\ call.fn = "analyze_all_hedge_types"
    /\ call.pc = "done"
    /\ Len(AnalysisReturned) >= 2
    /\ Len(AnalysisReturned) < Len(call.all_opportunities)
    /\ AnalysisReturned[1].profit_percentage > AnalysisReturned[2].profit_percentage
    /\ \E i \in 1 .. Len(call.all_opportunities) - 1 :
         /\ call.all_opportunities[i].profit_percentage >= call.min_profit_percentage
         /\ call.all_opportunities[i].profit_percentage
                < call.all_opportunities[i + 1].profit_percentage


\* the rate a calculator was constructed with for a platform; the
\* bookmaker's back bet carries no commission
ConfiguredRate(calculator, platform) ==
    IF platform = "oddsapi" THEN 0 ELSE ConfiguredCommission(calculator, platform)

\* C14: every opportunity the analyses of HedgeTypeAnalyzer emit reports, in
\* back_commission and lay_commission, the rate the calculator was
\* constructed with for the venue of that leg
C14_AnalysesUseConfiguredCommission ==
    call.fn = "analyze_all_hedge_types" =>
        \A i \in 1 .. Len(call.all_opportunities) :
            LET op == call.all_opportunities[i]
            IN  /\ op.back_commission = ConfiguredRate(call.calculator, op.back_platform)
                /\ op.lay_commission = ConfiguredRate(call.calculator, op.lay_platform)


----------------------------------------------------------------------------
(* Properties of the matcher, checked under SpecMatcher *)

\* the position of the Betfair market with a given id in the list of a call
PositionOfBetfair(id) ==
    CHOOSE i \in DOMAIN call.betfair_markets : Get(call.betfair_markets[i], "id", NoId) = id

\* what match_markets returns for one Betfair market of the call on its own
MatchedAlone(i) ==
    match_markets(<<call.betfair_markets[i]>>, call.smarkets_markets,
                  call.similarity_threshold)

\* C15: match_markets emits at most one match per market of the first list,
\* in the order of that list, and each market of the first list gets the
\* match it would get on its own: a market of the second list chosen for
\* one market stays available to the later ones
C15_GreedyOrderedNotOneToOne ==
    (call.fn = "match_markets" /\ call.result.kind = "list") =>
        LET matched == call.result.list
        IN  /\ \A k \in DOMAIN matched :
                 \E i \in DOMAIN call.betfair_markets :
                     Get(call.betfair_markets[i], "id", NoId) = matched[k].betfair_market_id
            /\ \A k, l \in DOMAIN matched :
                 k < l => PositionOfBetfair(matched[k].betfair_market_id)
                              < PositionOfBetfair(matched[l].betfair_market_id)
            /\ \A i \in DOMAIN call.betfair_markets :
                 LET own == {k \in DOMAIN matched :
                               matched[k].betfair_market_id
                                   = Get(call.betfair_markets[i], "id", NoId)}
                 IN  /\ Cardinality(own) <= 1
                     /\ MatchedAlone(i).kind = "list"
                     /\ own = {} <=> MatchedAlone(i).list = <<>>
                     /\ \A k \in own : MatchedAlone(i).list = <<matched[k]>>

\* C15 witness: two markets of the first list are matched with the same
\* market of the second list, whose list holds another market as well
C15_Witness ==
    /\ call.fn = "match_markets"
    /\ call.result.kind = "list"
    /\ Len(call.result.list) = 2
    /\ Len(call.smarkets_markets) = 2
    /\ call.result.list[1].smarkets_market_id = call.result.list[2].smarkets_market_id
    /\ call.result.list[1].betfair_market_id # call.result.list[2].betfair_market_id

\* the similarity of the names of runner i of the first list and runner j
\* of the second list of a call
RunnerSimilarity(i, j) ==
    _calculate_similarity(_normalize_team_name(call.betfair_runners[i].runner_name),
                          _normalize_team_name(call.smarkets_runners[j].runner_name))

\* the runners of the second list at or above the threshold for runner i
AtOrAboveThreshold(i) ==
    {j \in DOMAIN call.smarkets_runners :
        ~RLess(RunnerSimilarity(i, j), Hundredths(call.similarity_threshold))}

\* the first runner among candidates with the highest similarity to runner i
FirstBest(i, candidates) ==
    CHOOSE j \in candidates :
        \A m \in candidates :
            \/ RLess(RunnerSimilarity(i, m), RunnerSimilarity(i, j))
            \/ RunnerSimilarity(i, m) = RunnerSimilarity(i, j) /\ j <= m

\* runner i of the first list is mapped as the candidates prescribe
MappedToFirstBest(i, candidates) ==
    LET id == call.betfair_runners[i].selection_id
        map == call.result.map
    IN  IF candidates = {} THEN id \notin DOMAIN map
        ELSE /\ id \in DOMAIN map
             /\ map[id] = call.smarkets_runners[FirstBest(i, candidates)].selection_id

\* C16 as stated: find_runner_matches maps each selection of the first list
\* to the selection of the second list with the highest similarity among
\* those at or above the threshold, the first in list order winning ties,
\* and gives no entry to a selection with none at or above the threshold
C16_BestAtOrAboveThreshold ==
    call.fn = "find_runner_matches" =>
        \A i \in DOMAIN call.betfair_runners :
            MappedToFirstBest(i, AtOrAboveThreshold(i))

\* what the mapping does satisfy: the same, among the selections whose
\* similarity is at or above the threshold and greater than zero
BestPositiveAtOrAboveThreshold ==
    call.fn = "find_runner_matches" =>
        \A i \in DOMAIN call.betfair_runners :
            MappedToFirstBest(i, {j \in AtOrAboveThreshold(i) :
                                     RLess(Rat(0), RunnerSimilarity(i, j))})

\* what find_runner_matches returns for one selection of the call on its own
MappedAlone(i) ==
    find_runner_matches(<<call.betfair_runners[i]>>, call.smarkets_runners,
                        call.similarity_threshold)

\* C17: find_runner_matches always returns a mapping, from selection ids of
\* the first list to selection ids of the second, in which every selection
\* has the entry it would have on its own: no selection of the second
\* list is withheld because another selection already maps to it
C17_NoUniquenessOnSecondList ==
    call.fn = "find_runner_matches" =>
        /\ call.result.kind = "dict"
        /\ DOMAIN call.result.map \subseteq
               {call.betfair_runners[i].selection_id : i \in DOMAIN call.betfair_runners}
        /\ \A id \in DOMAIN call.result.map :
               call.result.map[id] \in
                   {call.smarkets_runners[j].selection_id : j \in DOMAIN call.smarkets_runners}
        /\ \A i \in DOMAIN call.betfair_runners :
               LET id == call.betfair_runners[i].selection_id
               IN  /\ MappedAlone(i).kind = "dict"
                   /\ id \in DOMAIN call.result.map <=> id \in DOMAIN MappedAlone(i).map
                   /\ id \in DOMAIN call.result.map =>
                          call.result.map[id] = MappedAlone(i).map[id]

\* C17 witness: two different selections of the first list map to the same
\* selection of the second list
C17_Witness ==
    /\ call.fn = "find_runner_matches"
    /\ call.result.kind = "dict"
    /\ \E a, b \in DOMAIN call.result.map :
         a # b /\ call.result.map[a] = call.result.map[b]


----------------------------------------------------------------------------
(* Properties of ThreeWayHedgeCalculator, checked under SpecThreeWay *)

ThreeWayReturned == call.fn = "calculate_three_way_hedge" /\ call.pc = "done"

\* exactly three names, three back odds, three lay odds, each odds above 1.0
ThreeValidLegs ==
    /\ Len(call.selection_names) = 3
    /\ Len(call.back_odds) = 3
    /\ Len(call.lay_odds) = 3
    /\ \A k \in 1 .. 3 :
           RLess(Rat(1), call.back_odds[k]) /\ RLess(Rat(1), call.lay_odds[k])

\* C18: calculate_three_way_hedge returns None, and raises nothing, unless it
\* is given exactly three names, three back odds and three lay odds and each
\* of the six odds is above 1.0; odds of exactly 1.0 are rejected.
C18_AbsentUnlessThreeValidLegs ==
    ThreeWayReturned =>
        /\ call.result.kind # "raise"
        /\ ~ThreeValidLegs => call.result = None

\* three of each, only the unused lay odds of the first outcome at exactly 1.0,
\* where backing the first outcome would otherwise have given an allocation
C18_Witness ==
    /\ ThreeWayReturned
    /\ Len(call.selection_names) = 3
    /\ call.back_odds = <<Rat(200), Rat(200), Rat(200)>>
    /\ call.lay_odds = <<Rat(1), Norm(8, 5), Norm(5, 2)>>
    /\ call.base_stake = 100
    /\ OptimizedFor(call.exchange_commission, call.base_stake, call.selection_names,
                    call.back_odds, call.lay_odds, 0) # None
    /\ call.result = None

\* 1/back_odds + 1/lay_odds1 + 1/lay_odds2
SumOfImplied(back_odds, lay_odds1, lay_odds2) ==
    RAdd(RAdd(RDiv(Rat(1), back_odds), RDiv(Rat(1), lay_odds1)), RDiv(Rat(1), lay_odds2))

\* the allocation of the call for outcome i backed
Choice(i) ==
    OptimizedFor(call.exchange_commission, call.base_stake, call.selection_names,
                 call.back_odds, call.lay_odds, i)

\* the sum of implied probabilities of the call for outcome i backed
ChoiceSum(i) ==
    SumOfImplied(call.back_odds[i + 1], call.lay_odds[lay_indices(i)[1] + 1],
                 call.lay_odds[lay_indices(i)[2] + 1])

WithinTolerance(r) ==
    /\ r.implied_probability_sum = SumOfImplied(r.back_odds, r.lay_odds1, r.lay_odds2)
    /\ ~RLess(Norm(103, 100), r.implied_probability_sum)
    /\ r.overround = RSub(r.implied_probability_sum, Rat(1))

\* C19: a choice of backed outcome whose 1/back_odds + 1/lay_odds1 + 1/lay_odds2
\* exceeds 1.03 produces no result, so every result kept or returned has
\* implied_probability_sum <= 1.03 (1.03 itself allowed) and
\* overround = implied_probability_sum - 1.
C19_ResultsWithinTolerance ==
    call.fn = "calculate_three_way_hedge" =>
        /\ ThreeValidLegs =>
             \A i \in 0 .. 2 :
                 /\ RLess(Norm(103, 100), ChoiceSum(i)) => Choice(i) = None
                 /\ Choice(i) # None => WithinTolerance(Choice(i))
        /\ call.best_result # None => WithinTolerance(call.best_result)
        /\ call.result # None => WithinTolerance(call.result)

\* a result returned whose sum of implied probabilities is exactly 1.03,
\* while another choice of the same call was rejected for exceeding it
C19_Witness ==
    /\ ThreeWayReturned
    /\ call.result # None
    /\ call.result.implied_probability_sum = Norm(103, 100)
    /\ call.result.overround = Norm(3, 100)
    /\ \E i \in 0 .. 2 : RLess(Norm(103, 100), ChoiceSum(i)) /\ Choice(i) = None

\* choice i gives an allocation with profit > 0
Viable(i) == Choice(i) # None /\ RLess(Rat(0), Choice(i).profit)

\* C20: calculate_three_way_hedge tries each of the three outcomes as the
\* backed leg, with that outcome's back odds and the other two outcomes' lay
\* odds, and returns the viable allocation with the highest guaranteed profit,
\* the earliest winning ties; it returns None exactly when no choice is viable.
C20_BestOfThreeChoices ==
    ThreeWayReturned /\ ThreeValidLegs =>
        IF \A i \in 0 .. 2 : ~Viable(i)
        THEN call.result = None
        ELSE \E i \in 0 .. 2 :
                 /\ Viable(i)
                 /\ call.result = Choice(i)
                 /\ call.result.back_odds = call.back_odds[i + 1]
                 /\ call.result.back_selection = call.selection_names[i + 1]
                 /\ \A j \in 0 .. 2 :
                        Viable(j) =>
                            /\ ~RLess(Choice(i).profit, Choice(j).profit)
                            /\ j < i => RLess(Choice(j).profit, Choice(i).profit)

\* the third outcome returned, having beaten a viable second outcome
C20_Witness ==
    /\ ThreeWayReturned
    /\ ThreeValidLegs
    /\ Viable(1)
    /\ Viable(2)
    /\ RLess(Choice(1).profit, Choice(2).profit)
    /\ call.result = Choice(2)
    /\ call.result.back_selection = "Away"


\* the three per-outcome profits of choice i of the call, whether or not the
\* choice is within tolerance
ChoiceProfits(i) ==
    ProfitsByOutcome(call.exchange_commission, call.back_odds[i + 1],
        call.lay_odds[lay_indices(i)[1] + 1], call.lay_odds[lay_indices(i)[2] + 1],
        BalancedStakes(call.base_stake, call.back_odds[i + 1],
            call.lay_odds[lay_indices(i)[1] + 1], call.lay_odds[lay_indices(i)[2] + 1],
            ImpliedProbabilities(call.back_odds[i + 1],
                call.lay_odds[lay_indices(i)[1] + 1],
                call.lay_odds[lay_indices(i)[2] + 1])))

EqualProfit(q) ==
    /\ q.profit_if_back_wins_adj = q.profit_if_lay1_wins_adj
    /\ q.profit_if_back_wins_adj = q.profit_if_lay2_wins_adj

\* the profit of r is the least of the profits it keeps by outcome, and is > 0
ProfitIsLeastKept(r) ==
    /\ \E name \in DOMAIN r.profit_by_outcome : r.profit = r.profit_by_outcome[name]
    /\ \A name \in DOMAIN r.profit_by_outcome :
           ~RLess(r.profit_by_outcome[name], r.profit)
    /\ RLess(Rat(0), r.profit)

\* C21: with exchange commission 0 the balanced allocation is equal-profit:
\* for odds above 1 and a base stake above 0 the profits if the back wins, if
\* the first lay wins and if the second lay wins coincide; with any commission
\* the returned profit is the minimum of the adjusted per-outcome profits kept
\* in profit_by_outcome and is strictly positive.
C21_EqualProfitAndLeastReturned ==
    call.fn = "calculate_three_way_hedge" =>
        /\ ThreeValidLegs /\ call.exchange_commission = 0 /\ call.base_stake > 0 =>
               \A i \in 0 .. 2 : EqualProfit(ChoiceProfits(i))
        /\ call.best_result # None => ProfitIsLeastKept(call.best_result)
        /\ call.result # None => ProfitIsLeastKept(call.result)

\* with commission 0 a result whose three kept profits are the same positive
\* amount, while a choice of the same call has three equal negative profits
C21_Witness ==
    /\ ThreeWayReturned
    /\ call.exchange_commission = 0
    /\ call.result # None
    /\ \A name \in DOMAIN call.result.profit_by_outcome :
           call.result.profit_by_outcome[name] = call.result.profit
    /\ \E i \in 0 .. 2 :
           /\ EqualProfit(ChoiceProfits(i))
           /\ RLess(ChoiceProfits(i).profit_if_back_wins_adj, Rat(0))

\* with commission 5% a result whose back-win profit exceeds its returned profit
C21_WitnessCommission ==
    /\ ThreeWayReturned
    /\ call.exchange_commission = 5
    /\ call.result # None
    /\ RLess(call.result.profit, call.result.profit_by_outcome[call.result.back_selection])


\* 1/lay_odds1 + 1/lay_odds2 > 1 + 1/back_odds and the sum of the three
\* implied probabilities is at most 1.03
EdgeWithinTolerance(r) ==
    /\ RLess(RAdd(Rat(1), RDiv(Rat(1), r.back_odds)),
             RAdd(RDiv(Rat(1), r.lay_odds1), RDiv(Rat(1), r.lay_odds2)))
    /\ ~RLess(Norm(103, 100), SumOfImplied(r.back_odds, r.lay_odds1, r.lay_odds2))

\* every back odds of the call is at most limit
BackOddsAtMost(limit) == \A k \in 1 .. 3 : ~RLess(limit, call.back_odds[k])

\* C29: whenever calculate_three_way_hedge returns a result, its backed odds b
\* and laid odds l1, l2 satisfy 1/l1 + 1/l2 > 1 + 1/b and
\* 1/b + 1/l1 + 1/l2 <= 1.03, hence 2/b < 0.03; for any input in which all
\* three back odds are <= 66.67 the result is absent.
C29_AbsentUpToSixtySixPointSixSeven ==
    ThreeWayReturned /\ ThreeValidLegs =>
        /\ call.result # None =>
               /\ EdgeWithinTolerance(call.result)
               /\ RLess(RDiv(Rat(2), call.result.back_odds), Norm(3, 100))
        /\ BackOddsAtMost(Norm(6667, 100)) => call.result = None

\* backed odds above 200/3 with an edge within tolerance
BackedAboveTwoHundredThirds(r) ==
    /\ EdgeWithinTolerance(r)
    /\ RLess(RDiv(Rat(2), r.back_odds), Norm(3, 100))
    /\ RLess(Norm(200, 3), r.back_odds)

\* C29, with the bound that follows from 2/b < 0.03: a result kept or returned
\* has 1/l1 + 1/l2 > 1 + 1/b, 1/b + 1/l1 + 1/l2 <= 1.03 and backed odds above
\* 200/3, and for any input in which all three back odds are <= 200/3
\* (66.666...) the result is absent.
C29_AbsentUpToTwoHundredThirds ==
    call.fn = "calculate_three_way_hedge" =>
        /\ call.best_result # None => BackedAboveTwoHundredThirds(call.best_result)
        /\ call.result # None => BackedAboveTwoHundredThirds(call.result)
        /\ ThreeWayReturned /\ ThreeValidLegs /\ BackOddsAtMost(Norm(200, 3)) =>
               call.result = None

\* back odds of 66.66 on every outcome with lays of 2.0 and 200/103, which at
\* back odds of 66.67 give an allocation: no result
C29_Witness ==
    /\ ThreeWayReturned
    /\ ThreeValidLegs
    /\ call.base_stake = 100
    /\ call.back_odds = <<Norm(6666, 100), Norm(6666, 100), Norm(6666, 100)>>
    /\ call.lay_odds = <<Rat(2), Rat(2), Norm(200, 103)>>
    /\ _optimize_three_way_stakes(call.exchange_commission, call.base_stake, "Home",
           Norm(6667, 100), "Draw", Rat(2), "Away", Norm(200, 103)) # None
    /\ call.result = None


----------------------------------------------------------------------------
(* Properties of match_markets: labels, start times and scores *)

\* a label that holds one of "match odds", "match betting", "1x2",
\* "win-draw-win", "winner" once lower-cased and stripped
IsMatchResultLabel(label) ==
    \E key \in MarketMappingKeys : Find(Strip(ToLower(label)), key) # 0

\* the label match_markets reads from a market of the first list (key name)
\* and of the second list (key market_name): empty when the key is missing
BetfairLabel(market) == IF "name" \in DOMAIN market THEN market.name ELSE <<>>
SmarketsLabel(market) ==
    IF "market_name" \in DOMAIN market THEN market.market_name ELSE <<>>

MatchMarketsReturned == call.fn = "match_markets" /\ call.result.kind = "list"

\* C22: match_markets only emits a match between two markets whose labels
\* both normalize to the match-result key: a market of either list whose
\* label does not (a record carrying its label under another field name
\* included, the label read being empty) appears in no emitted match.
C22_OnlyMatchResultMarkets ==
    MatchMarketsReturned =>
        LET matched == call.result.list
        IN  /\ \A k \in DOMAIN matched :
                   /\ IsMatchResultLabel(BetfairLabel(matched[k].betfair_market))
                   /\ IsMatchResultLabel(SmarketsLabel(matched[k].smarkets_market))
            /\ \A i \in DOMAIN call.betfair_markets :
                   ~IsMatchResultLabel(BetfairLabel(call.betfair_markets[i])) =>
                       \A k \in DOMAIN matched :
                           matched[k].betfair_market # call.betfair_markets[i]
            /\ \A j \in DOMAIN call.smarkets_markets :
                   ~IsMatchResultLabel(SmarketsLabel(call.smarkets_markets[j])) =>
                       \A k \in DOMAIN matched :
                           matched[k].smarkets_market # call.smarkets_markets[j]

\* "abcd v xy" under the keys of BetfairAPI.list_live_markets is left out,
\* while "Abcd FC v Xy" under the key name is matched with "abcd - xy"
C22_Witness ==
    /\ MatchMarketsReturned
    /\ Len(call.betfair_markets) = 2
    /\ "market_name" \in DOMAIN call.betfair_markets[1]
    /\ call.betfair_markets[1].market_id = "b5"
    /\ Len(call.result.list) = 1
    /\ call.result.list[1].betfair_market_id = "b1"
    /\ call.result.list[1].smarkets_market_id = "s1"

\* the start times match_markets reads from a market of each list
BetfairStart(market) == IF "startTime" \in DOMAIN market THEN market.startTime ELSE NoTime
SmarketsStart(market) == IF "start_time" \in DOMAIN market THEN market.start_time ELSE NoTime

\* both start times present and more than 3600 seconds apart
TooFarApart(a, b) ==
    /\ a.kind = "iso"
    /\ b.kind = "iso"
    /\ (a.seconds - b.seconds > 3600 \/ b.seconds - a.seconds > 3600)

\* the score of a pair: the mean of the similarities of the home names and of
\* the away names
Score(betfair_market, smarkets_market) ==
    LET a == _extract_teams_from_event(Get(betfair_market, "event_name", <<>>))
        b == _extract_teams_from_event(Get(smarkets_market, "event_name", <<>>))
    IN  RDiv(RAdd(_calculate_similarity(a[1], b[1]), _calculate_similarity(a[2], b[2])),
             Rat(2))

\* the positions of the emitted matches of market i of the first list
MatchesOf(i) ==
    {k \in DOMAIN call.result.list :
        call.result.list[k].betfair_market = call.betfair_markets[i]}

\* market j of the second list can be matched with market i of the first:
\* both labels are match-result labels and the start times are not too far apart
EligiblePair(i, j) ==
    /\ IsMatchResultLabel(BetfairLabel(call.betfair_markets[i]))
    /\ IsMatchResultLabel(SmarketsLabel(call.smarkets_markets[j]))
    /\ ~TooFarApart(BetfairStart(call.betfair_markets[i]),
                    SmarketsStart(call.smarkets_markets[j]))

\* C23: a pair whose start times are both present and differ by more than
\* 3600 seconds is never matched, whatever its similarity; a difference of
\* exactly 3600 seconds is accepted, and with either start time absent the
\* check is skipped: a lone candidate of positive score at or above the
\* threshold is then matched.
C23_StartTimesWithinAnHour ==
    MatchMarketsReturned =>
        /\ \A k \in DOMAIN call.result.list :
               ~TooFarApart(BetfairStart(call.result.list[k].betfair_market),
                            SmarketsStart(call.result.list[k].smarkets_market))
        /\ \A i \in DOMAIN call.betfair_markets :
               (/\ Len(call.smarkets_markets) = 1
                /\ EligiblePair(i, 1)
                /\ RLess(Rat(0), Score(call.betfair_markets[i], call.smarkets_markets[1]))
                /\ ~RLess(Score(call.betfair_markets[i], call.smarkets_markets[1]),
                          Hundredths(call.similarity_threshold)))
               => \E k \in MatchesOf(i) :
                      call.result.list[k].smarkets_market = call.smarkets_markets[1]

\* "Abcd FC v Xy" at 0 s is matched with "abcd - xy" at 3600 s although
\* "abcd v xy" at 3601 s comes first in the list and has the same names
C23_Witness ==
    /\ MatchMarketsReturned
    /\ Len(call.betfair_markets) = 1
    /\ BetfairStart(call.betfair_markets[1]) = IsoTime(0)
    /\ Len(call.smarkets_markets) = 2
    /\ SmarketsStart(call.smarkets_markets[1]) = IsoTime(3601)
    /\ Score(call.betfair_markets[1], call.smarkets_markets[1]) = Rat(1)
    /\ SmarketsStart(call.smarkets_markets[2]) = IsoTime(3600)
    /\ Len(call.result.list) = 1
    /\ call.result.list[1].smarkets_market_id = "s1"

\* the candidates of market i: the eligible markets of the second list whose
\* score is at least the threshold and above floor
CandidatesAbove(i, floor) ==
    {j \in DOMAIN call.smarkets_markets :
        /\ EligiblePair(i, j)
        /\ ~RLess(Score(call.betfair_markets[i], call.smarkets_markets[j]),
                  Hundredths(call.similarity_threshold))
        /\ \/ floor = "none"
           \/ RLess(Rat(0), Score(call.betfair_markets[i], call.smarkets_markets[j]))}

\* the first of the candidates with the highest score
FirstBestOf(i, candidates) ==
    CHOOSE j \in candidates :
        \A m \in candidates :
            /\ ~RLess(Score(call.betfair_markets[i], call.smarkets_markets[j]),
                      Score(call.betfair_markets[i], call.smarkets_markets[m]))
            /\ m < j => RLess(Score(call.betfair_markets[i], call.smarkets_markets[m]),
                              Score(call.betfair_markets[i], call.smarkets_markets[j]))

\* every eligible market of the first list is matched with the first best of
\* its candidates, at that score, and is unmatched when it has no candidate
MatchedWithFirstBest(floor) ==
    MatchMarketsReturned =>
        \A i \in DOMAIN call.betfair_markets :
            IsMatchResultLabel(BetfairLabel(call.betfair_markets[i])) =>
                IF CandidatesAbove(i, floor) = {}
                THEN MatchesOf(i) = {}
                ELSE /\ Cardinality(MatchesOf(i)) = 1
                     /\ \A k \in MatchesOf(i) :
                            /\ call.result.list[k].smarkets_market =
                                   call.smarkets_markets[FirstBestOf(i, CandidatesAbove(i, floor))]
                            /\ call.result.list[k].similarity_score =
                                   Score(call.betfair_markets[i],
                                         call.smarkets_markets[FirstBestOf(i, CandidatesAbove(i, floor))])

\* C24: for each eligible market of the first list, the market emitted is the
\* eligible market of the second list with the highest score (the mean of the
\* home and away similarities) among those with score >= similarity_threshold,
\* the first in list order winning ties; similarity_score is that score, and
\* no match is emitted when no eligible market reaches the threshold.
C24_BestScoreAtOrAboveThreshold == MatchedWithFirstBest("none")

\* the same for the candidates whose score is above 0
BestPositiveScoreAtOrAboveThreshold == MatchedWithFirstBest("zero")


----------------------------------------------------------------------------
(* Properties of the analyses called directly, checked under SpecDirect *)

\* a direct call of fn has returned a list of opportunities
Emitted(fn) ==
    /\ call.fn = fn
    /\ call.result.kind = "opportunities"

\* the exchange has one of the two names the analyzer knows, in any case
KnownExchange(exchange_name) ==
    ToLower(exchange_name) \in {ExchangeLiterals[platform] : platform \in DOMAIN ExchangeLiterals}

\* the platform whose name the call was given
CalledPlatform == CHOOSE platform \in DOMAIN ExchangeLiterals :
                      ToLower(call.exchange_name) = ExchangeLiterals[platform]

\* the rate the analyzer takes for a venue
VenueCommission(platform) ==
    IF platform = "betfair" THEN BETFAIR_COMMISSION ELSE SMARKETS_COMMISSION

\* the opportunity comes from this runner of the same book: back above lay,
\* and the hedge at the venue's rate on both legs has a positive profit
FromCrossedBook(o, runner) ==
    /\ "best_back_price" \in DOMAIN runner
    /\ "best_lay_price" \in DOMAIN runner
    /\ runner.best_back_price.present
    /\ runner.best_lay_price.present
    /\ o.back_odds = runner.best_back_price.v
    /\ o.lay_odds = runner.best_lay_price.v
    /\ runner.best_back_price.v > runner.best_lay_price.v
    /\ o.back_selection_id = Get(runner, "selection_id", NoId)
    /\ LET hedge == calculate_hedge(runner.best_back_price, runner.best_lay_price,
                                    call.stake, VenueCommission(CalledPlatform),
                                    VenueCommission(CalledPlatform))
       IN  /\ hedge.kind = "result"
           /\ hedge.profit > 0
           /\ o.profit = hedge.profit
           /\ o.lay_stake = hedge.lay_stake

C25_WitnessUnknown ==
    /\ Emitted("analyze_exchange_internal")
    /\ ~KnownExchange(call.exchange_name)
    /\ call.stake > 0
    /\ \E n \in DOMAIN call.runners :
         /\ call.runners[n].best_back_price.v = 300
         /\ Get(call.runners[n], "best_lay_price", NoOdds).v = 200


\* the runner a bookmaker's lookup holds for a selection id
LookedUp(runners, selection_id) ==
    IF selection_id \in {Get(runners[n], "selection_id", NoId) : n \in DOMAIN runners}
    THEN RunnersById(runners)[selection_id]
    ELSE [selection_id |-> NoId]

\* the pairs of opposing selections of the call for which both bookmakers
\* quote odds above 0
PricedPairs ==
    {n \in DOMAIN call.opposing_runner_matches :
        LET pair == call.opposing_runner_matches[n]
            o1 == Get(LookedUp(call.bookmaker1_odds, pair[1]), "back_odds", NoOdds)
            o2 == Get(LookedUp(call.bookmaker2_odds, pair[2]), "back_odds", NoOdds)
        IN  o1.present /\ o2.present /\ o1.v > 0 /\ o2.v > 0}

PairOdds(n) ==
    LET pair == call.opposing_runner_matches[n]
    IN  <<LookedUp(call.bookmaker1_odds, pair[1]).back_odds.v,
          LookedUp(call.bookmaker2_odds, pair[2]).back_odds.v>>

\* 1/o1 + 1/o2 < 1, for odds in hundredths
InverseSumBelowOne(o1, o2) ==
    RLess(RAdd(RDiv(Rat(1), Hundredths(o1)), RDiv(Rat(1), Hundredths(o2))), Rat(1))

\* the opportunities of the call for the n-th pair
EmittedFor(n) ==
    {k \in DOMAIN call.result.list :
        /\ call.result.list[k].back_selection_id = call.opposing_runner_matches[n][1]
        /\ call.result.list[k].lay_selection_id = call.opposing_runner_matches[n][2]}

\* C26: analyze_bookmaker_bookmaker splits the total stake so that both
\* outcomes return the same amount: the two stakes sum to the total stake,
\* stake1 * o1 = stake2 * o2, the profit is that common return minus the
\* total stake, and a pair of odds above 0 gives an opportunity exactly when
\* that profit is above 0, that is when 1/o1 + 1/o2 < 1
C26_EqualReturnSplit ==
    Emitted("analyze_bookmaker_bookmaker") /\ call.stake > 0 =>
        /\ \A k \in DOMAIN call.result.list :
             LET o == call.result.list[k]
                 return1 == RMul(o.stake, Hundredths(o.back_odds))
                 return2 == RMul(o.lay_stake, Hundredths(o.lay_odds))
             IN  /\ RAdd(o.stake, o.lay_stake) = Rat(call.stake)
                 /\ return1 = return2
                 /\ o.profit = RSub(return1, Rat(call.stake))
                 /\ RLess(Rat(0), o.profit)
                 /\ \E n \in PricedPairs :
                       /\ k \in EmittedFor(n)
                       /\ PairOdds(n) = <<o.back_odds, o.lay_odds>>
        /\ \A n \in PricedPairs :
             /\ Cardinality(EmittedFor(n)) = 
                  (IF InverseSumBelowOne(PairOdds(n)[1], PairOdds(n)[2]) THEN 1 ELSE 0)
        /\ Len(call.result.list) = Cardinality({n \in PricedPairs :
                                     InverseSumBelowOne(PairOdds(n)[1], PairOdds(n)[2])})

\* a pair at odds 1.5 and 4.0 emitted with unequal stakes
C26_Witness ==
    /\ Emitted("analyze_bookmaker_bookmaker")
    /\ call.stake > 0
    /\ \E k \in DOMAIN call.result.list :
         /\ call.result.list[k].back_odds = 150
         /\ call.result.list[k].lay_odds = 400
         /\ call.result.list[k].stake # call.result.list[k].lay_stake

\* a pair at odds 2.0 and 2.0, whose common return equals the total stake,
\* not emitted
C26_WitnessBreakEven ==
    /\ Emitted("analyze_bookmaker_bookmaker")
    /\ call.stake > 0
    /\ call.result.list = <<>>
    /\ \E n \in PricedPairs : PairOdds(n) = <<200, 200>>


TwoLegFunctions ==
    {"analyze_exchange_internal", "analyze_cross_exchange",
     "analyze_bookmaker_exchange", "find_cross_platform_opportunities",
     "find_odds_api_exchange_opportunities"}

\* a price that is present and above 1.0
AboveOne(odds) == odds.present /\ odds.v > 100

\* a price that passes the scans' test (truthy and > 0) but is not above 1.0
PositiveUpToOne(odds) == odds.present /\ odds.v > 0 /\ odds.v <= 100

\* the pairs (back price, lay price) the call hands to its loops
LegsOfCall ==
    IF call.fn = "analyze_exchange_internal"
    THEN [n \in DOMAIN call.runners |->
            <<Get(call.runners[n], "best_back_price", NoOdds),
              Get(call.runners[n], "best_lay_price", NoOdds)>>]
    ELSE IF call.fn \in {"analyze_cross_exchange", "find_cross_platform_opportunities"}
    THEN [n \in DOMAIN call.matches |->
            <<call.matches[n].bf.best_back_price, call.matches[n].sm.best_lay_price>>]
         \o
         [n \in DOMAIN call.matches |->
            <<call.matches[n].sm.best_back_price, call.matches[n].bf.best_lay_price>>]
    ELSE [n \in DOMAIN call.matches |->
            <<call.matches[n].back_odds, call.matches[n].best_lay_price>>]

\* C27: every two-leg opportunity emitted by analyze_exchange_internal,
\* analyze_cross_exchange, analyze_bookmaker_exchange,
\* find_cross_platform_opportunities or find_odds_api_exchange_opportunities
\* for a stake above 0 has profit > 0 and back_odds > lay_odds > 1.0, and a
\* pair of prices with a price of 1.0 or less on either leg gives no
\* opportunity although the scans only test the prices for > 0
C27_OpportunitiesAboveOneAndProfitable ==
    (\E fn \in TwoLegFunctions : Emitted(fn)) /\ call.stake > 0 =>
        /\ \A k \in DOMAIN call.result.list :
             LET o == call.result.list[k]
             IN  /\ o.profit > 0
                 /\ o.back_odds > o.lay_odds
                 /\ o.lay_odds > 100
                 /\ \E n \in DOMAIN LegsOfCall :
                       /\ AboveOne(LegsOfCall[n][1])
                       /\ AboveOne(LegsOfCall[n][2])
                       /\ LegsOfCall[n][1].v = o.back_odds
                       /\ LegsOfCall[n][2].v = o.lay_odds
        /\ Len(call.result.list) <=
             Cardinality({n \in DOMAIN LegsOfCall :
                            AboveOne(LegsOfCall[n][1]) /\ AboveOne(LegsOfCall[n][2])})

\* a cross-venue call whose pair of prices passes the test for > 0 with a lay
\* price of exactly 1.0 under a back price of 3.0, and returns no opportunity
C27_Witness ==
    /\ Emitted("analyze_cross_exchange")
    /\ call.stake > 0
    /\ call.result.list = <<>>
    /\ \E n \in DOMAIN LegsOfCall :
         /\ LegsOfCall[n][1] = SomeOdds(300)
         /\ LegsOfCall[n][2] = SomeOdds(100)

\* a same-venue call on a runner backed at 1.0, next to a runner that gives
\* an opportunity
C27_WitnessBackAtOne ==
    /\ Emitted("analyze_exchange_internal")
    /\ call.stake > 0
    /\ Len(call.result.list) = 1
    /\ \E n \in DOMAIN LegsOfCall :
         /\ LegsOfCall[n][1] = SomeOdds(100)
         /\ PositiveUpToOne(LegsOfCall[n][2])


CrossFunctions == {"analyze_cross_exchange", "find_cross_platform_opportunities"}

\* the runner's own book is not crossed: best back price <= best lay price
Uncrossed(runner) ==
    /\ runner.best_back_price.present
    /\ runner.best_lay_price.present
    /\ runner.best_back_price.v <= runner.best_lay_price.v

\* what the called function returns for one selection match alone
AloneReturns(match) ==
    IF call.fn = "analyze_cross_exchange"
    THEN analyze_cross_exchange(call.calculator, <<match>>, call.stake)
    ELSE find_cross_platform_opportunities(call.calculator, <<match>>, call.stake)

\* the opportunities of the call in the direction given by its back platform
InDirection(back_platform) ==
    {k \in DOMAIN call.result.list : call.result.list[k].back_platform = back_platform}

\* C28: in analyze_cross_exchange and find_cross_platform_opportunities, a
\* selection match whose two runners each have an uncrossed book on their
\* own venue (best back <= best lay) gives an opportunity in at most one of
\* the two directions, for a stake above 0 and any of the commission rates,
\* so it contributes at most one opportunity
C28_UncrossedBooksOneDirection ==
    (\E fn \in CrossFunctions : Emitted(fn)) /\ call.stake > 0 =>
        /\ \A n \in DOMAIN call.matches :
             Uncrossed(call.matches[n].bf) /\ Uncrossed(call.matches[n].sm)
             => Len(AloneReturns(call.matches[n]).list) <= 1
        /\ (\A n \in DOMAIN call.matches :
               Uncrossed(call.matches[n].bf) /\ Uncrossed(call.matches[n].sm))
           => /\ Len(call.result.list) <= Len(call.matches)
              /\ Len(call.matches) = 1 =>
                   InDirection("betfair") = {} \/ InDirection("smarkets") = {}

\* a match of two uncrossed books (2.0/2.1 on one venue, 3.0/3.1 on the
\* other) that gives an opportunity in exactly one direction
C28_Witness ==
    /\ \E fn \in CrossFunctions : Emitted(fn)
    /\ call.stake > 0
    /\ Len(call.matches) = 1
    /\ Uncrossed(call.matches[1].bf)
    /\ Uncrossed(call.matches[1].sm)
    /\ Len(call.result.list) = 1
    /\ call.result.list[1].back_odds = 300
    /\ call.result.list[1].lay_odds = 210

\* a match of two crossed books gives an opportunity in both directions
C28_WitnessCrossed ==
    /\ \E fn \in CrossFunctions : Emitted(fn)
    /\ Len(call.matches) = 1
    /\ ~Uncrossed(call.matches[1].bf)
    /\ ~Uncrossed(call.matches[1].sm)
    /\ InDirection("betfair") # {}
    /\ InDirection("smarkets") # {}


----------------------------------------------------------------------------
(* Properties of execute_hedge_bet, checked under SpecExecFair *)

FinalStatuses == {"completed", "partially_completed", "failed"}

\* a call of execute_hedge_bet has begun and not returned
ExecutionRunning == exec.pc # "idle"

\* the status of an entry, or "absent"
StatusOf(store, id) == IF id \in DOMAIN store THEN store[id].status ELSE "absent"

\* whenever no call is running every entry has a final status, and the last
\* call returned the status stored under the id it returned
ReturnedFinal ==
    ~ExecutionRunning =>
        /\ \A id \in DOMAIN execution_status :
              execution_status[id].status \in FinalStatuses
        /\ "execution_id" \in DOMAIN exec =>
              /\ exec.execution_id \in DOMAIN execution_status
              /\ exec.status = execution_status[exec.execution_id].status

\* a step changes the status of an entry only from none (or from the final
\* status a returned call left) to pending as a call begins, from pending to
\* in_progress, and from in_progress to a final status as the call returns;
\* a call returns only then, with its own id
StatusStep ==
    /\ \A id \in DOMAIN execution_status' :
         LET old == StatusOf(execution_status, id)
             new == StatusOf(execution_status', id)
         IN  old # new =>
               \/ /\ old \in FinalStatuses \cup {"absent"}
                  /\ new = "pending"
                  /\ ~ExecutionRunning
                  /\ exec'.pc = "pending"
                  /\ exec'.id = id
               \/ /\ old = "pending"
                  /\ new = "in_progress"
                  /\ exec.pc = "pending"
                  /\ exec.id = id
                  /\ ExecutionRunning'
               \/ /\ old = "in_progress"
                  /\ new \in FinalStatuses
                  /\ ExecutionRunning
                  /\ exec.id = id
                  /\ ~ExecutionRunning'
    /\ ExecutionRunning /\ ~ExecutionRunning' =>
         /\ StatusOf(execution_status, exec.id) = "in_progress"
         /\ StatusOf(execution_status', exec.id) \in FinalStatuses
         /\ exec'.execution_id = exec.id
         /\ exec'.status = StatusOf(execution_status', exec.id)
    /\ ~ExecutionRunning /\ ExecutionRunning' =>
         StatusOf(execution_status', exec'.id) = "pending"

\* C30: execute_hedge_bet never raises and never leaves an execution
\* unfinished: for every hedge type and every outcome of the leg placements
\* (a placement that raises and a hedge type without executor included) the
\* entry's status goes pending -> in_progress -> exactly one of completed,
\* partially_completed, failed before the call returns, every call that has
\* begun returns, the returned status is the status stored under the
\* returned execution id, and no entry is pending or in_progress once its
\* call has returned
C30_EveryExecutionEndsInAFinalStatus ==
    /\ []ReturnedFinal
    /\ [][StatusStep]_vars
    /\ (ExecutionRunning ~> ~ExecutionRunning)

\* a second call, for a hedge type without executor, has returned failed
\* after a first call whose placement raised
C30_Witness ==
    /\ ~ExecutionRunning
    /\ Len(callIds) = 2
    /\ "execution_id" \in DOMAIN exec
    /\ execution_status[exec.execution_id].opportunity.hedge_type = "multi_leg"
    /\ exec.status = "failed"
    /\ \E id \in DOMAIN execution_status :
         /\ id # exec.execution_id
         /\ execution_status[id].opportunity.hedge_type = "cross_exchange"
         /\ execution_status[id].error = "exception"

====
